---- MODULE Spec2Model ----
(***************************************************************************)
(* b3dict: a dictionary kept in one file as a B-tree of fixed-width node   *)
(* slots (src/b3dictionary.py).                                            *)
(*                                                                         *)
(* Representation choices of this model                                    *)
(*  - A slot offset is modelled by its slot number: slot n stands for byte *)
(*    offset max_tree_header_size + 1 + (n-1) * max_node_size, so the root *)
(*    of a new file is slot 1, "last_offset -= max_node_size" is "- 1",    *)
(*    and offset 0 is the header record.                                   *)
(*  - Keys are the integers 1..MaxKey (they stand for strings compared     *)
(*    with <, >, ==).  A value is a string, represented by its length.     *)
(*  - Python lists are objects: node.copy() in __load_node__ and           *)
(*    __save_node__ is a shallow copy, so a loaded node and the cached     *)
(*    node share their key/data/lower_node lists.  The model keeps a heap  *)
(*    of list objects; node dicts hold list references.                    *)
(*  - The cache is a map offset -> node dict.  The per-record hit counter  *)
(*    and the "cache hit"/"cache miss" statistics only feed the eviction   *)
(*    choice, which needs cache_size (32) cached offsets; CacheNotFull     *)
(*    checks that the explored states stay below that.                     *)
(*  - An exception leaves the partially updated state behind and is        *)
(*    recorded in ret.err.  After an exception that the code does not      *)
(*    document (anything but KeyError / ValueError of the API) the         *)
(*    instance is regarded as broken and no further call is explored.      *)
(***************************************************************************)
EXTENDS Integers, Sequences, FiniteSets, TLC

\* ---------------------------------------------------------------- bounds
MaxKey == 5
MaxStat == 3

\* ------------------------------------------------------------- constants
max_data_size == 4096
max_free_nodes == 10
cache_size == 32

\* creation arguments explored: b3dict(file, NumKeys, key_size, DataSize)
NumKeysArgs == {3}
DataSizeArg == 1

Keys == 1..MaxKey
\* a value is a str; __to_str__ returns a str unchanged, so its encoded
\* length is its length.  Lengths explored: data_size, data_size + 1 and
\* one above the manual limit.
Values == {DataSizeArg, DataSizeArg + 1, max_data_size + 1}

\* the calls put(k, v) explored: every key with a value of length data_size,
\* and the other lengths on the keys up to MaxOddKey
MaxOddKey == 1

PutArgs == {a \in Keys \X Values : a[2] = DataSizeArg \/ a[1] <= MaxOddKey}

VARIABLES hdr, dhdr, file, cache, heap, iter_node, iter_pos, iter_dir, self_min_occup,
          ret, yielded, iterating, pre, pending

vars == <<hdr, dhdr, file, cache, heap, iter_node, iter_pos, iter_dir, self_min_occup,
          ret, yielded, iterating, pre, pending>>

\* ------------------------------------------------------- python lists
Hole == [hole |-> TRUE]
None == [none |-> TRUE]

\* position (1-based) of python index i in list s; valid iff in 1..Len(s)
PyPos(s, i) == IF i >= 0 THEN i + 1 ELSE Len(s) + i + 1

PyValid(s, i) == PyPos(s, i) >= 1 /\ PyPos(s, i) <= Len(s)

\* the element lands one place to the right
PyInsert_after(s, i, x) ==
  LET p == IF i + 1 > Len(s) THEN Len(s) ELSE i + 1
  IN SubSeq(s, 1, p) \o <<x>> \o SubSeq(s, p + 1, Len(s))

\* list.insert(i, x) for 0 <= i
PyInsert(s, i, x) ==
  LET p == IF i > Len(s) THEN Len(s) ELSE i
  IN SubSeq(s, 1, p) \o <<x>> \o SubSeq(s, p + 1, Len(s))

\* del s[p] for a valid 1-based position p
PyRemove(s, p) == SubSeq(s, 1, p - 1) \o SubSeq(s, p + 1, Len(s))

\* the value is inserted before position p, nothing is overwritten
PySet_insert(s, p, x) == SubSeq(s, 1, p - 1) \o <<x>> \o SubSeq(s, p, Len(s))

\* s[p] = x for a valid 1-based position
PySet(s, p, x) == [s EXCEPT ![p] = x]

\* "x = v; rest": v is evaluated once and Rest reads its value
With(v, Rest(_)) == CHOOSE r \in {Rest(x) : x \in {v}} : TRUE

\* list.sort() on a list of integers
RECURSIVE PySort(_)
PySort(s) ==
  With(s, LAMBDA v :
    IF Len(v) <= 1 THEN v
    ELSE With(CHOOSE i \in 1..Len(v) : \A j \in 1..Len(v) : v[i] <= v[j],
              LAMBDA mn : <<v[mn]>> \o PySort(PyRemove(v, mn))))

trunc_div(a, b) == a \div b

\* ------------------------------------------------------ machine record
\* The operators below are the methods of b3dict.  Each takes the machine
\* m (the instance fields, the file, the heap of list objects and the
\* pending exception err) and returns the machine after the call.
Mach == [hdr |-> hdr, dhdr |-> dhdr, file |-> file, cache |-> cache,
         heap |-> heap, iter_node |-> iter_node, iter_pos |-> iter_pos,
         iter_dir |-> iter_dir, min_occup |-> self_min_occup, err |-> ""]

Ok(m) == m.err = ""

Raise(m, e) == IF Ok(m) THEN [m EXCEPT !.err = e] ELSE m

min_occup(m) == m.min_occup

\* the node dict as json.dumps writes it
Dump(m, node) ==
  [offset |-> node.offset, upper_node |-> node.upper_node,
   left_node |-> node.left_node, right_node |-> node.right_node,
   key |-> m.heap[node.key], data |-> m.heap[node.data],
   lower_node |-> m.heap[node.lower_node]]

\* fd.seek(off); fd.write(rec): a write past the end of the file leaves a
\* gap of undecodable slots
WriteSlot(f, off, rec) ==
  IF off <= Len(f) THEN [f EXCEPT ![off] = rec]
  ELSE f \o [i \in 1..(off - Len(f) - 1) |-> Hole] \o <<rec>>

\* the header record is left as it was on disk
save_header_skipped(m) == m

save_header(m) == With(m, LAMBDA s : IF Ok(s) THEN [s EXCEPT !.dhdr = s.hdr] ELSE s)

save_node(m, node) ==
  With(m, LAMBDA s :
  With(node, LAMBDA nd :
    IF ~Ok(s) THEN s
    ELSE IF nd.offset < 1 THEN Raise(s, "WriteOverHeader")
    ELSE [s EXCEPT
            !.cache = IF nd.offset \in DOMAIN s.cache
                      THEN [@ EXCEPT ![nd.offset] = nd] ELSE @,
            !.file = WriteSlot(@, nd.offset, Dump(s, nd))]))

\* __load_node__ returns the node dict in .node and the machine in .m.
\* Offset 0 is the header record and an offset outside the file or in a gap
\* reads no JSON object: the code raises RuntimeError('B-Tree file is
\* corrupt'), or for offset 0 - when the header text fits the slot width -
\* returns the header dict, whose first use as a node raises KeyError or
\* TypeError.  Both are the exception "Corrupt" here.
load_node(m, offset) ==
  With(m, LAMBDA s :
  With(offset, LAMBDA off :
    IF ~Ok(s) THEN [m |-> s, node |-> None]
    ELSE IF off \in DOMAIN s.cache
    THEN [m |-> s, node |-> s.cache[off]]
    ELSE IF off < 1 \/ off > Len(s.file) \/ s.file[off] = Hole
    THEN [m |-> Raise(s, "Corrupt"), node |-> None]
    ELSE LET rec == s.file[off]
             n == Len(s.heap)
             node == [offset |-> rec.offset, upper_node |-> rec.upper_node,
                      left_node |-> rec.left_node, right_node |-> rec.right_node,
                      key |-> n + 1, data |-> n + 2, lower_node |-> n + 3]
         IN [m |-> [s EXCEPT !.heap = @ \o <<rec.key, rec.data, rec.lower_node>>,
                             !.cache = [o \in DOMAIN @ \cup {off} |->
                                          IF o = off THEN node ELSE @[o]]],
             node |-> node]))

\* list views of a node dict
K(m, node) == m.heap[node.key]
D(m, node) == m.heap[node.data]
L(m, node) == m.heap[node.lower_node]

\* __binsearch__ with 0-based bounds beg, end; returns a 0-based position
RECURSIVE binsearch_from(_, _, _, _)
binsearch_from(key, lis, beg, end) ==
  IF beg = end THEN beg
  ELSE With(trunc_div(beg + end, 2), LAMBDA p :
         IF key < lis[p + 1] THEN binsearch_from(key, lis, beg, p)
         ELSE IF key > lis[p + 1] THEN binsearch_from(key, lis, p + 1, end)
         ELSE p)

\* the search stops one short of the end of the list
binsearch_short(key, lis) ==
  binsearch_from(key, lis, 0, IF Len(lis) = 0 THEN 0 ELSE Len(lis) - 1)

binsearch(key, lis) == binsearch_from(key, lis, 0, Len(lis))

\* "Test if found": lis[pos] == key, an IndexError counting as not found
found_at_any(lis, pos, key) == pos < Len(lis)

found_at(lis, pos, key) == pos < Len(lis) /\ lis[pos + 1] = key

\* __rec_search__: .node, .position (0-based), .exists
RECURSIVE rec_search(_, _, _)
rec_search(m, offset, key) ==
  With(load_node(m, offset), LAMBDA ld :
    IF ~Ok(ld.m)
    THEN [m |-> ld.m, node |-> None, position |-> 0, exists |-> FALSE]
    ELSE
    With(K(ld.m, ld.node), LAMBDA keys :
    With(binsearch(key, keys), LAMBDA pos :
    With(found_at(keys, pos, key), LAMBDA exists :
      IF exists \/ Len(L(ld.m, ld.node)) = 0
      THEN [m |-> ld.m, node |-> ld.node, position |-> pos, exists |-> exists]
      ELSE IF pos >= Len(L(ld.m, ld.node))
      THEN [m |-> Raise(ld.m, "IndexError"), node |-> None,
            position |-> 0, exists |-> FALSE]
      ELSE rec_search(ld.m, L(ld.m, ld.node)[pos + 1], key)))))

\* "sub = load(off); sub[...] = ...; save(sub)" with the three pointer
\* fields given as the new values (Keep leaves a field as it is)
Keep == -1

\* the left_node field is never rewritten
Patch_keeps_left(node, up, lf, rg) ==
  [node EXCEPT !.upper_node = IF up = Keep THEN @ ELSE up,
               !.right_node = IF rg = Keep THEN @ ELSE rg]

\* the upper_node field is never rewritten
Patch_keeps_upper(node, up, lf, rg) ==
  [node EXCEPT !.left_node = IF lf = Keep THEN @ ELSE lf,
               !.right_node = IF rg = Keep THEN @ ELSE rg]

Patch(node, up, lf, rg) ==
  [node EXCEPT !.upper_node = IF up = Keep THEN @ ELSE up,
               !.left_node = IF lf = Keep THEN @ ELSE lf,
               !.right_node = IF rg = Keep THEN @ ELSE rg]

load_patch_save(m, off, up, lf, rg) ==
  With(load_node(m, off), LAMBDA ld :
    IF ~Ok(ld.m) THEN ld.m ELSE save_node(ld.m, Patch(ld.node, up, lf, rg)))

\* for off in offs: sub = load(off); sub['upper_node'] = up; save(sub)
RECURSIVE set_upper_all(_, _, _)
set_upper_all(m, offs, up) ==
  With(m, LAMBDA s :
  With(offs, LAMBDA os :
    IF ~Ok(s) \/ os = <<>> THEN s
    ELSE set_upper_all(load_patch_save(s, Head(os), up, Keep, Keep), Tail(os), up)))

\* ---------------------------------------------------------------- move
\* "if n > 0: load(n)" of a sibling link n; .node is None without sibling
load_if(m, offset) ==
  With(m, LAMBDA s :
    IF Ok(s) /\ offset > 0 THEN load_node(s, offset) ELSE [m |-> s, node |-> None])

move_node(m, old_offset, new_offset) ==
  With(load_node(m, old_offset), LAMBDA l0 :
  With(IF Ok(l0.m) THEN load_node(l0.m, l0.node.upper_node) ELSE l0, LAMBDA l1 :
  With(IF Ok(l1.m) THEN load_if(l1.m, l0.node.left_node) ELSE l1, LAMBDA l2 :
  With(IF Ok(l2.m) THEN load_if(l2.m, l0.node.right_node) ELSE l2, LAMBDA l3 :
    LET node == l0.node
        upper_node == l1.node
        left_node == l2.node
        right_node == l3.node
        m3 == l3.m
    IN IF ~Ok(m3) THEN m3
       ELSE IF Len(K(m3, node)) = 0 THEN Raise(m3, "IndexError")
       ELSE
       With(binsearch(K(m3, node)[Len(K(m3, node))], K(m3, upper_node)), LAMBDA pos :
         IF pos >= Len(L(m3, upper_node)) THEN Raise(m3, "IndexError")
         ELSE
         With([m3 EXCEPT !.heap[upper_node.lower_node] =
                            PySet(@, pos + 1, new_offset)], LAMBDA m4 :
         With(save_node(m4, [node EXCEPT !.offset = new_offset]), LAMBDA m5 :
         With(IF left_node # None
              THEN save_node(m5, [left_node EXCEPT !.right_node = new_offset])
              ELSE m5, LAMBDA m6 :
         With(IF right_node # None
              THEN save_node(m6, [right_node EXCEPT !.left_node = new_offset])
              ELSE m6, LAMBDA m7 :
         With(save_node(m7, upper_node), LAMBDA m8 :
           set_upper_all(m8, L(m8, node), new_offset)))))))))))

\* ---------------------------------------------------------------- free
\* the compaction step of __free_node__ (free list longer than
\* max_free_nodes)
truncate_last(m) ==
  With(m, LAMBDA s :
    IF ~Ok(s) THEN s
    ELSE LET lo == s.hdr.last_offset
             f == IF lo - 1 <= Len(s.file) THEN SubSeq(s.file, 1, lo - 1)
                  ELSE s.file \o [i \in 1..(lo - 1 - Len(s.file)) |-> Hole]
         IN save_header([s EXCEPT !.file = f, !.hdr.last_offset = lo - 1]))

compact(m) ==
  With(load_node(m, m.hdr.last_offset), LAMBDA ld :
    LET m1 == ld.m
        lo == m1.hdr.last_offset
    IN IF ~Ok(m1) THEN m1
       ELSE IF Len(K(m1, ld.node)) = 0
       THEN IF \E i \in 1..Len(m1.hdr.free_offset) : m1.hdr.free_offset[i] = lo
            THEN LET i == CHOOSE j \in 1..Len(m1.hdr.free_offset) :
                            /\ m1.hdr.free_offset[j] = lo
                            /\ \A h \in 1..(j - 1) : m1.hdr.free_offset[h] # lo
                 IN truncate_last([m1 EXCEPT !.hdr.free_offset = PyRemove(@, i)])
            ELSE Raise(m1, "ValueError_remove")
       ELSE
       With(move_node([m1 EXCEPT !.hdr.free_offset = Tail(@)], lo,
                      Head(m1.hdr.free_offset)), LAMBDA m3 :
         truncate_last(IF Ok(m3) /\ lo = m3.hdr.root_offset
                       THEN [m3 EXCEPT !.hdr.root_offset = Head(m1.hdr.free_offset)]
                       ELSE m3)))

free_node(m, node) ==
  With(m, LAMBDA s :
    IF ~Ok(s) THEN s
    ELSE
    With(save_node([s EXCEPT !.heap[node.key] = <<>>,
                             !.heap[node.data] = <<>>,
                             !.heap[node.lower_node] = <<>>],
                   [node EXCEPT !.upper_node = 0, !.left_node = 0,
                                !.right_node = 0]), LAMBDA m2 :
    With(IF Ok(m2)
         THEN save_header([m2 EXCEPT !.hdr.free_offset =
                             PySort(Append(@, node.offset))])
         ELSE m2, LAMBDA m3 :
      IF Ok(m3) /\ Len(m3.hdr.free_offset) > max_free_nodes
      THEN compact(m3) ELSE m3)))

\* --------------------------------------------------------------- alloc
\* a node is allocated and stats.nodes stays as it was
alloc_node_uncounted(m) ==
  With(m, LAMBDA s :
    IF ~Ok(s) THEN [m |-> s, node |-> None]
    ELSE IF Len(s.hdr.free_offset) > 0
    THEN With(load_node([s EXCEPT !.hdr.free_offset = Tail(@)],
                        Head(s.hdr.free_offset)), LAMBDA ld :
           IF ~Ok(ld.m) THEN ld
           ELSE [m |-> save_header(
                         [ld.m EXCEPT !.heap[ld.node.key] = <<>>,
                                      !.heap[ld.node.data] = <<>>,
                                      !.heap[ld.node.lower_node] = <<>>]),
                 node |-> ld.node])
    ELSE LET n == Len(s.heap)
             off == Len(s.file) + 1
             node == [offset |-> off, upper_node |-> 0, left_node |-> 0,
                      right_node |-> 0, key |-> n + 1, data |-> n + 2,
                      lower_node |-> n + 3]
             m1 == [s EXCEPT !.heap = @ \o <<<<>>, <<>>, <<>>>>,
                             !.hdr.last_offset = off]
         IN [m |-> save_header([m1 EXCEPT !.file = Append(@, Dump(m1, node))]),
             node |-> node])

alloc_node(m) ==
  With(m, LAMBDA s :
    IF ~Ok(s) THEN [m |-> s, node |-> None]
    ELSE IF Len(s.hdr.free_offset) > 0
    THEN With(load_node([s EXCEPT !.hdr.free_offset = Tail(@)],
                        Head(s.hdr.free_offset)), LAMBDA ld :
           IF ~Ok(ld.m) THEN ld
           ELSE [m |-> save_header(
                         [ld.m EXCEPT !.heap[ld.node.key] = <<>>,
                                      !.heap[ld.node.data] = <<>>,
                                      !.heap[ld.node.lower_node] = <<>>,
                                      !.hdr.nodes = @ + 1]),
                 node |-> ld.node])
    ELSE LET n == Len(s.heap)
             off == Len(s.file) + 1
             node == [offset |-> off, upper_node |-> 0, left_node |-> 0,
                      right_node |-> 0, key |-> n + 1, data |-> n + 2,
                      lower_node |-> n + 3]
             m1 == [s EXCEPT !.heap = @ \o <<<<>>, <<>>, <<>>>>,
                             !.hdr.last_offset = off,
                             !.hdr.nodes = @ + 1]
         IN [m |-> save_header([m1 EXCEPT !.file = Append(@, Dump(m1, node))]),
             node |-> node])

\* -------------------------------------------------------------- thread
\* a thread to left that hands the key over without passing the parent
thread_left_past_parent(m, giver, taker, upper_node) ==
  With(save_header([m EXCEPT !.hdr.threads_left = @ + 1]), LAMBDA m1 :
    IF Len(K(m1, giver)) = 0 THEN Raise(m1, "IndexError")
    ELSE
    With(binsearch(K(m1, giver)[1], K(m1, upper_node)) - 1, LAMBDA pos :
      IF ~PyValid(K(m1, upper_node), pos) \/ ~PyValid(D(m1, upper_node), pos)
         \/ Len(D(m1, giver)) = 0
      THEN Raise(m1, "IndexError")
      ELSE
      With(PyPos(K(m1, upper_node), pos), LAMBDA pk :
      With(PyPos(D(m1, upper_node), pos), LAMBDA pd :
      With([m1 EXCEPT !.heap[taker.key] = Append(@, Head(K(m1, giver)))], LAMBDA a1 :
      With([a1 EXCEPT !.heap[upper_node.key] = @], LAMBDA a2 :
      With([a2 EXCEPT !.heap[giver.key] = Tail(@)], LAMBDA a3 :
      With([a3 EXCEPT !.heap[taker.data] = Append(@, D(a3, upper_node)[pd])], LAMBDA b1 :
      With([b1 EXCEPT !.heap[upper_node.data] = PySet(@, pd, Head(D(b1, giver)))], LAMBDA b2 :
      With([b2 EXCEPT !.heap[giver.data] = Tail(@)], LAMBDA b3 :
        IF Len(L(b3, giver)) = 0 THEN b3
        ELSE
        With([b3 EXCEPT !.heap[taker.lower_node] = Append(@, Head(L(b3, giver)))], LAMBDA c1 :
        With([c1 EXCEPT !.heap[giver.lower_node] = Tail(@)], LAMBDA c2 :
          LET tl == L(c2, taker)
              gl == L(c2, giver)
          IN IF Len(tl) < 2 THEN Raise(c2, "IndexError")
             ELSE
             With(load_patch_save(c2, tl[Len(tl)], taker.offset, tl[Len(tl) - 1], 0),
                  LAMBDA d1 :
               IF Len(gl) = 0 THEN Raise(d1, "IndexError")
               ELSE load_patch_save(load_patch_save(d1, gl[1], Keep, 0, Keep),
                                    tl[Len(tl) - 1], Keep, Keep, tl[Len(tl)])
             )))))))))))))

\* "Thread to left": the giver is the right party; its first key goes up
\* and the separator comes down to the end of the taker.
thread_left(m, giver, taker, upper_node) ==
  With(save_header([m EXCEPT !.hdr.threads_left = @ + 1]), LAMBDA m1 :
    IF Len(K(m1, giver)) = 0 THEN Raise(m1, "IndexError")
    ELSE
    With(binsearch(K(m1, giver)[1], K(m1, upper_node)) - 1, LAMBDA pos :
      IF ~PyValid(K(m1, upper_node), pos) \/ ~PyValid(D(m1, upper_node), pos)
         \/ Len(D(m1, giver)) = 0
      THEN Raise(m1, "IndexError")
      ELSE
      With(PyPos(K(m1, upper_node), pos), LAMBDA pk :
      With(PyPos(D(m1, upper_node), pos), LAMBDA pd :
      With([m1 EXCEPT !.heap[taker.key] = Append(@, K(m1, upper_node)[pk])], LAMBDA a1 :
      With([a1 EXCEPT !.heap[upper_node.key] = PySet(@, pk, Head(K(a1, giver)))], LAMBDA a2 :
      With([a2 EXCEPT !.heap[giver.key] = Tail(@)], LAMBDA a3 :
      With([a3 EXCEPT !.heap[taker.data] = Append(@, D(a3, upper_node)[pd])], LAMBDA b1 :
      With([b1 EXCEPT !.heap[upper_node.data] = PySet(@, pd, Head(D(b1, giver)))], LAMBDA b2 :
      With([b2 EXCEPT !.heap[giver.data] = Tail(@)], LAMBDA b3 :
        IF Len(L(b3, giver)) = 0 THEN b3
        ELSE
        With([b3 EXCEPT !.heap[taker.lower_node] = Append(@, Head(L(b3, giver)))], LAMBDA c1 :
        With([c1 EXCEPT !.heap[giver.lower_node] = Tail(@)], LAMBDA c2 :
          LET tl == L(c2, taker)
              gl == L(c2, giver)
          IN IF Len(tl) < 2 THEN Raise(c2, "IndexError")
             ELSE
             With(load_patch_save(c2, tl[Len(tl)], taker.offset, tl[Len(tl) - 1], 0),
                  LAMBDA d1 :
               IF Len(gl) = 0 THEN Raise(d1, "IndexError")
               ELSE load_patch_save(load_patch_save(d1, gl[1], Keep, 0, Keep),
                                    tl[Len(tl) - 1], Keep, Keep, tl[Len(tl)])
             )))))))))))))

\* "Thread to right": the giver is the left party; its last key goes up and
\* the separator comes down to the front of the taker.
thread_right(m, giver, taker, upper_node) ==
  With(save_header([m EXCEPT !.hdr.threads_right = @ + 1]), LAMBDA m1 :
    IF Len(K(m1, giver)) = 0 THEN Raise(m1, "IndexError")
    ELSE
    With(binsearch(K(m1, giver)[Len(K(m1, giver))], K(m1, upper_node)), LAMBDA pos :
      IF ~PyValid(K(m1, upper_node), pos) \/ ~PyValid(D(m1, upper_node), pos)
         \/ Len(D(m1, giver)) = 0
      THEN Raise(m1, "IndexError")
      ELSE
      With(pos + 1, LAMBDA pk :
      With([m1 EXCEPT !.heap[taker.key] = <<K(m1, upper_node)[pk]>> \o @], LAMBDA a1 :
      With([a1 EXCEPT !.heap[upper_node.key] =
                         PySet(@, pk, K(a1, giver)[Len(K(a1, giver))])], LAMBDA a2 :
      With([a2 EXCEPT !.heap[giver.key] = SubSeq(@, 1, Len(@) - 1)], LAMBDA a3 :
      With([a3 EXCEPT !.heap[taker.data] = <<D(a3, upper_node)[pk]>> \o @], LAMBDA b1 :
      With([b1 EXCEPT !.heap[upper_node.data] =
                         PySet(@, pk, D(b1, giver)[Len(D(b1, giver))])], LAMBDA b2 :
      With([b2 EXCEPT !.heap[giver.data] = SubSeq(@, 1, Len(@) - 1)], LAMBDA b3 :
        IF Len(L(b3, giver)) = 0 THEN b3
        ELSE
        With([b3 EXCEPT !.heap[taker.lower_node] =
                           <<L(b3, giver)[Len(L(b3, giver))]>> \o @], LAMBDA c1 :
        With([c1 EXCEPT !.heap[giver.lower_node] = SubSeq(@, 1, Len(@) - 1)], LAMBDA c2 :
          LET tl == L(c2, taker)
              gl == L(c2, giver)
          IN IF Len(tl) < 2 THEN Raise(c2, "IndexError")
             ELSE
             With(load_patch_save(c2, tl[1], taker.offset, 0, tl[2]), LAMBDA d1 :
               IF Len(gl) = 0 THEN Raise(d1, "IndexError")
               ELSE load_patch_save(load_patch_save(d1, gl[Len(gl)], Keep, Keep, 0),
                                    tl[2], Keep, tl[1], Keep)
             ))))))))))))

\* an underfull node also takes from a sibling that holds just min_occup
thread_choice_greedy(occup, left_occup, right_occup, minocc) ==
  IF occup < minocc
  THEN IF left_occup > 0 /\ left_occup >= minocc
          /\ (left_occup >= right_occup \/ right_occup = 0)
       THEN [dir |-> "right", giver |-> "left", taker |-> "node"]
       ELSE IF right_occup > 0 /\ right_occup >= minocc
               /\ (right_occup >= left_occup \/ left_occup = 0)
       THEN [dir |-> "left", giver |-> "right", taker |-> "node"]
       ELSE [dir |-> "none", giver |-> "none", taker |-> "node"]
  ELSE IF occup > minocc
  THEN IF left_occup > 0 /\ left_occup < occup - 1
          /\ (left_occup < right_occup \/ right_occup = 0)
       THEN [dir |-> "left", giver |-> "node", taker |-> "left"]
       ELSE IF right_occup > 0 /\ right_occup < occup - 1
               /\ (right_occup < left_occup \/ left_occup = 0)
       THEN [dir |-> "right", giver |-> "node", taker |-> "right"]
       ELSE [dir |-> "none", giver |-> "node", taker |-> "none"]
  ELSE [dir |-> "none", giver |-> "none", taker |-> "none"]

\* an underfull node between two equally full siblings takes from the right
thread_choice_right_on_tie(occup, left_occup, right_occup, minocc) ==
  IF occup < minocc
  THEN IF left_occup > 0 /\ left_occup > minocc
          /\ (left_occup > right_occup \/ right_occup = 0)
       THEN [dir |-> "right", giver |-> "left", taker |-> "node"]
       ELSE IF right_occup > 0 /\ right_occup > minocc
               /\ (right_occup >= left_occup \/ left_occup = 0)
       THEN [dir |-> "left", giver |-> "right", taker |-> "node"]
       ELSE [dir |-> "none", giver |-> "none", taker |-> "node"]
  ELSE IF occup > minocc
  THEN IF left_occup > 0 /\ left_occup < occup - 1
          /\ (left_occup < right_occup \/ right_occup = 0)
       THEN [dir |-> "left", giver |-> "node", taker |-> "left"]
       ELSE IF right_occup > 0 /\ right_occup < occup - 1
               /\ (right_occup < left_occup \/ left_occup = 0)
       THEN [dir |-> "right", giver |-> "node", taker |-> "right"]
       ELSE [dir |-> "none", giver |-> "node", taker |-> "none"]
  ELSE [dir |-> "none", giver |-> "none", taker |-> "none"]

\* the choice of direction, giver and taker (lines 627-657); dir = "none"
\* when no rotation is possible
thread_choice(occup, left_occup, right_occup, minocc) ==
  IF occup < minocc
  THEN IF left_occup > 0 /\ left_occup > minocc
          /\ (left_occup >= right_occup \/ right_occup = 0)
       THEN [dir |-> "right", giver |-> "left", taker |-> "node"]
       ELSE IF right_occup > 0 /\ right_occup > minocc
               /\ (right_occup >= left_occup \/ left_occup = 0)
       THEN [dir |-> "left", giver |-> "right", taker |-> "node"]
       ELSE [dir |-> "none", giver |-> "none", taker |-> "node"]
  ELSE IF occup > minocc
  THEN IF left_occup > 0 /\ left_occup < occup - 1
          /\ (left_occup < right_occup \/ right_occup = 0)
       THEN [dir |-> "left", giver |-> "node", taker |-> "left"]
       ELSE IF right_occup > 0 /\ right_occup < occup - 1
               /\ (right_occup < left_occup \/ left_occup = 0)
       THEN [dir |-> "right", giver |-> "node", taker |-> "right"]
       ELSE [dir |-> "none", giver |-> "node", taker |-> "none"]
  ELSE [dir |-> "none", giver |-> "none", taker |-> "none"]

\* any taker is taken for almost full
almost_full_always(m, taker) == Len(K(m, taker)) <= m.hdr.num_keys - 1

\* line 748: "Ballance taker if it's almost full"
almost_full(m, taker) == Len(K(m, taker)) = m.hdr.num_keys - 1

\* lines 595-743 of __thread_ballance__, one call without the threading of
\* the taker that follows: .m, .ret, and .again with the offset .taker when
\* the taker was left with num_keys - 1 keys
thread_once(m, offset) ==
  With(load_node(m, offset), LAMBDA l0 :
    IF ~Ok(l0.m) THEN [m |-> l0.m, ret |-> FALSE, again |-> FALSE, taker |-> 0]
    ELSE IF l0.node.upper_node = 0
    THEN [m |-> l0.m, ret |-> FALSE, again |-> FALSE, taker |-> 0]
    ELSE
    With(load_node(l0.m, l0.node.upper_node), LAMBDA l1 :
    With(load_if(l1.m, l0.node.left_node), LAMBDA l2 :
    With(load_if(l2.m, l0.node.right_node), LAMBDA l3 :
      IF ~Ok(l3.m) THEN [m |-> l3.m, ret |-> FALSE, again |-> FALSE, taker |-> 0]
      ELSE
      LET m3 == l3.m
          node == l0.node
          upper_node == l1.node
          occup == Len(K(m3, node))
          left_occup == IF l2.node # None THEN Len(K(m3, l2.node)) ELSE 0
          right_occup == IF l3.node # None THEN Len(K(m3, l3.node)) ELSE 0
          pick(w) == IF w = "node" THEN node
                     ELSE IF w = "left" THEN l2.node ELSE l3.node
      IN
      With(thread_choice(occup, left_occup, right_occup, min_occup(m3)), LAMBDA ch :
        IF ch.dir = "none"
        THEN [m |-> m3, ret |-> FALSE, again |-> FALSE, taker |-> 0]
        ELSE
        With(pick(ch.giver), LAMBDA giver :
        With(pick(ch.taker), LAMBDA taker :
        With(IF ch.dir = "left"
             THEN thread_left(m3, giver, taker, upper_node)
             ELSE thread_right(m3, giver, taker, upper_node), LAMBDA m4 :
        With(save_node(save_node(save_node(m4, taker), giver), upper_node), LAMBDA m5 :
          IF ~Ok(m5) THEN [m |-> m5, ret |-> FALSE, again |-> FALSE, taker |-> 0]
          ELSE [m |-> m5, ret |-> TRUE,
                again |-> almost_full(m5, taker),
                taker |-> taker.offset])))))))))

\* __thread_ballance__: .m and .ret; "Ballance taker if it's almost full"
\* (lines 745-749), whatever that call returns
RECURSIVE thread_ballance(_, _)
thread_ballance(m, offset) ==
  With(thread_once(m, offset), LAMBDA t :
    IF t.again
    THEN [m |-> thread_ballance(t.m, t.taker).m, ret |-> TRUE]
    ELSE [m |-> t.m, ret |-> t.ret])

\* --------------------------------------------------------------- split
\* lines 540-582 of __split_node__: the slices are new list objects, so the
\* cached nodes keep the old lists until the saves of line 585
split_halves(m, left_node, right_node, upper_node, pivot) ==
  LET lk == K(m, left_node)
      ldt == D(m, left_node)
      ll == L(m, left_node)
      n == Len(m.heap)
      right1 == [right_node EXCEPT !.key = n + 1, !.data = n + 2,
                                   !.upper_node = upper_node.offset,
                                   !.left_node = left_node.offset,
                                   !.right_node = left_node.right_node]
      left1 == [left_node EXCEPT !.key = n + 3, !.data = n + 4,
                                 !.upper_node = upper_node.offset,
                                 !.right_node = right_node.offset]
  IN
  With([m EXCEPT !.heap = @ \o <<SubSeq(lk, pivot + 2, Len(lk)),
                                 SubSeq(ldt, pivot + 2, Len(ldt)),
                                 SubSeq(lk, 1, pivot),
                                 SubSeq(ldt, 1, pivot)>>], LAMBDA m1 :
  With(IF right1.right_node > 0
       THEN load_patch_save(m1, right1.right_node, Keep, right1.offset, Keep)
       ELSE m1, LAMBDA m2 :
    IF ~Ok(m2) \/ Len(ll) = 0
    THEN [m |-> m2, left |-> left1, right |-> right1]
    ELSE
    LET n2 == Len(m2.heap)
        rl == SubSeq(ll, pivot + 2, Len(ll))
        lls == SubSeq(ll, 1, pivot + 1)
        right2 == [right1 EXCEPT !.lower_node = n2 + 1]
        left2 == [left1 EXCEPT !.lower_node = n2 + 2]
    IN
    With(set_upper_all([m2 EXCEPT !.heap = @ \o <<rl, lls>>], rl, right2.offset),
         LAMBDA m4 :
      IF Len(rl) = 0 \/ Len(lls) = 0
      THEN [m |-> Raise(m4, "IndexError"), left |-> left2, right |-> right2]
      ELSE [m |-> load_patch_save(
                    load_patch_save(m4, rl[1], Keep, 0, Keep),
                    lls[Len(lls)], Keep, Keep, 0),
            left |-> left2, right |-> right2])))

\* "Define pivot position"
pivot_of_low(num_keys) == trunc_div(num_keys, 2) - 1

\* the pivot one place to the right of the middle
pivot_of_high(num_keys) == trunc_div(num_keys, 2) + 1

pivot_of(num_keys) == trunc_div(num_keys, 2)

\* lines 500-585 of __split_node__, one split without the balancing of the
\* parent: .m, and the three nodes as they are saved
split_once(m, offset) ==
  With(save_header([m EXCEPT !.hdr.splits = @ + 1]), LAMBDA m0 :
  With(pivot_of(m0.hdr.num_keys), LAMBDA pivot :
  With(load_node(m0, offset), LAMBDA l0 :
  With(alloc_node(l0.m), LAMBDA a0 :
  With(Ok(a0.m) /\ offset = a0.m.hdr.root_offset, LAMBDA isRoot :
  \* a new root: its lower_node list gets the old root in place
  With(IF isRoot
       THEN alloc_node(save_header([a0.m EXCEPT !.hdr.levels = @ + 1]))
       ELSE IF Ok(a0.m) THEN load_node(a0.m, l0.node.upper_node)
       ELSE a0, LAMBDA a1 :
  With(IF isRoot /\ Ok(a1.m)
       THEN save_header(
              [a1.m EXCEPT !.heap[a1.node.lower_node] = <<l0.node.offset>> \o @,
                           !.hdr.root_offset = a1.node.offset])
       ELSE a1.m, LAMBDA m1 :
    LET left_node == l0.node
        right_node == a0.node
        upper_node == a1.node
        failed(mf) == [m |-> mf, left |-> left_node, right |-> right_node,
                       upper |-> upper_node]
    IN
    IF ~Ok(m1) THEN failed(m1)
    ELSE IF pivot >= Len(K(m1, left_node)) \/ pivot >= Len(D(m1, left_node))
    THEN failed(Raise(m1, "IndexError"))
    ELSE
    With(binsearch(K(m1, left_node)[pivot + 1], K(m1, upper_node)), LAMBDA pos :
    With([m1 EXCEPT !.heap[upper_node.key] =
                       PyInsert(@, pos, K(m1, left_node)[pivot + 1]),
                    !.heap[upper_node.data] =
                       PyInsert(@, pos, D(m1, left_node)[pivot + 1]),
                    !.heap[upper_node.lower_node] =
                       PyInsert(@, pos + 1, right_node.offset)], LAMBDA m2 :
    With(split_halves(m2, left_node, right_node, upper_node, pivot), LAMBDA h :
      [m |-> save_node(save_node(save_node(h.m, h.left), h.right), upper_node),
       left |-> h.left, right |-> h.right, upper |-> upper_node]))))))))))

\* __split_node__: the split, then "Ballance upper node" (lines 588-591)
RECURSIVE split_node(_, _)
split_node(m, offset) ==
  With(split_once(m, offset), LAMBDA s :
    IF ~Ok(s.m) THEN s.m
    ELSE IF Len(K(s.m, s.upper)) = s.m.hdr.num_keys
    THEN With(thread_ballance(s.m, s.upper.offset), LAMBDA t :
           IF Ok(t.m) /\ ~t.ret THEN split_node(t.m, s.upper.offset)
           ELSE t.m)
    ELSE s.m)

\* --------------------------------------------------------------- merge
\* the root collapses and stats.levels stays as it was
collapse_root_level_kept(m, node) ==
  IF Len(K(m, node)) = 0 /\ Len(L(m, node)) > 0
  THEN With(save_header([m EXCEPT !.hdr.root_offset = L(m, node)[1],
                                  !.hdr.merges = @ + 1,
                                  !.hdr.nodes = @ - 1]), LAMBDA m1 :
       With(free_node(m1, node), LAMBDA m2 :
         IF ~Ok(m2) THEN m2
         ELSE load_patch_save(m2, m2.hdr.root_offset, 0, Keep, Keep)))
  ELSE m

\* the root case of __merge_node__ (lines 397-418)
collapse_root(m, node) ==
  IF Len(K(m, node)) = 0 /\ Len(L(m, node)) > 0
  THEN With(save_header([m EXCEPT !.hdr.root_offset = L(m, node)[1],
                                  !.hdr.merges = @ + 1,
                                  !.hdr.levels = @ - 1,
                                  !.hdr.nodes = @ - 1]), LAMBDA m1 :
       With(free_node(m1, node), LAMBDA m2 :
         IF ~Ok(m2) THEN m2
         ELSE load_patch_save(m2, m2.hdr.root_offset, 0, Keep, Keep)))
  ELSE m

\* lines 447-480: left_node absorbs the separator and right_node
merge_parties(m, left_node, right_node, upper_node) ==
  LET left1 == [left_node EXCEPT !.right_node = right_node.right_node]
  IN
  With(set_upper_all(m, L(m, right_node), left_node.offset), LAMBDA m1 :
  With(IF Ok(m1) /\ left1.right_node > 0
       THEN load_patch_save(m1, left1.right_node, Keep, left1.offset, Keep)
       ELSE m1, LAMBDA m2 :
  With(IF ~Ok(m2) \/ Len(L(m2, left_node)) = 0 THEN m2
       ELSE IF Len(L(m2, right_node)) = 0 THEN Raise(m2, "IndexError")
       ELSE load_patch_save(
              load_patch_save(m2, L(m2, left_node)[Len(L(m2, left_node))],
                              Keep, Keep, L(m2, right_node)[1]),
              L(m2, right_node)[1], Keep,
              L(m2, left_node)[Len(L(m2, left_node))], Keep), LAMBDA m3 :
    IF ~Ok(m3) THEN [m |-> m3, left |-> left1]
    ELSE IF Len(K(m3, left_node)) = 0
    THEN [m |-> Raise(m3, "IndexError"), left |-> left1]
    ELSE
    With(binsearch(K(m3, left_node)[Len(K(m3, left_node))], K(m3, upper_node)),
         LAMBDA pos :
      IF pos >= Len(K(m3, upper_node)) \/ pos >= Len(D(m3, upper_node))
         \/ pos + 1 >= Len(L(m3, upper_node))
      THEN [m |-> Raise(m3, "IndexError"), left |-> left1]
      ELSE
      With([m3 EXCEPT !.heap[left_node.key] = Append(@, K(m3, upper_node)[pos + 1])],
           LAMBDA a1 :
      With([a1 EXCEPT !.heap[upper_node.key] = PyRemove(@, pos + 1)], LAMBDA a2 :
      With([a2 EXCEPT !.heap[left_node.data] = Append(@, D(a2, upper_node)[pos + 1])],
           LAMBDA a3 :
      With([a3 EXCEPT !.heap[upper_node.data] = PyRemove(@, pos + 1)], LAMBDA a4 :
      With([a4 EXCEPT !.heap[upper_node.lower_node] = PyRemove(@, pos + 2)], LAMBDA a5 :
      With([a5 EXCEPT !.heap[left_node.key] = @ \o K(a5, right_node)], LAMBDA a6 :
      With([a6 EXCEPT !.heap[left_node.data] = @ \o D(a6, right_node)], LAMBDA a7 :
        [m |-> [a7 EXCEPT !.heap[left_node.lower_node] = @ \o L(a7, right_node)],
         left |-> left1])))))))))))

\* lines 391-490 of __merge_node__, one merge or root collapse without the
\* balancing of the parent: .m and the parent .upper (None for the root)
merge_once(m, offset) ==
  With(load_node(m, offset), LAMBDA l0 :
    IF ~Ok(l0.m) THEN [m |-> l0.m, upper |-> None]
    ELSE IF offset = l0.m.hdr.root_offset
    THEN [m |-> collapse_root(l0.m, l0.node), upper |-> None]
    ELSE
    With(save_header([l0.m EXCEPT !.hdr.merges = @ + 1]), LAMBDA m1 :
    With(load_node(m1, l0.node.upper_node), LAMBDA l1 :
    With(load_if(l1.m, l0.node.left_node), LAMBDA l2 :
    With(load_if(l2.m, l0.node.right_node), LAMBDA l3 :
      IF ~Ok(l3.m) THEN [m |-> l3.m, upper |-> None]
      ELSE
      LET m3 == l3.m
          node == l0.node
          upper_node == l1.node
          left_occup == IF l2.node # None THEN Len(K(m3, l2.node))
                        ELSE m3.hdr.num_keys
          right_occup == IF l3.node # None THEN Len(K(m3, l3.node))
                         ELSE m3.hdr.num_keys
          nodeIsRight == right_occup > left_occup
          left_node == IF nodeIsRight THEN l2.node ELSE node
          right_node == IF nodeIsRight THEN node ELSE l3.node
      IN IF right_node = None \/ left_node = None
         THEN [m |-> Raise(m3, "TypeError"), upper |-> None]
         ELSE
         With(merge_parties(m3, left_node, right_node, upper_node), LAMBDA p :
         With(save_node(save_node(p.m, p.left), upper_node), LAMBDA m4 :
         With(free_node(m4, right_node), LAMBDA m5 :
         With(IF Ok(m5) THEN save_header([m5 EXCEPT !.hdr.nodes = @ - 1]) ELSE m5,
              LAMBDA m6 :
           [m |-> m6, upper |-> upper_node])))))))))

\* __merge_node__: the merge, then "Ballance upper" (lines 493-496)
RECURSIVE merge_node(_, _)
merge_node(m, offset) ==
  With(merge_once(m, offset), LAMBDA g :
    IF ~Ok(g.m) \/ g.upper = None THEN g.m
    ELSE IF Len(K(g.m, g.upper)) < min_occup(g.m)
    THEN With(thread_ballance(g.m, g.upper.offset), LAMBDA t :
           IF Ok(t.m) /\ ~t.ret THEN merge_node(t.m, g.upper.offset)
           ELSE t.m)
    ELSE g.m)

\* ------------------------------------------------------------- mutators
\* __to_str__ of a str is the str; len() of a value of this model
to_str_len(value) == value

\* the key is inserted without its data entry
insert_pair_key_only(m, node, p, key, value) ==
  save_header([m EXCEPT !.heap[node.key] = PyInsert(@, p, key),
                        !.hdr.keys = @ + 1])

\* "If not found, insert new pair key/data"
insert_pair_uncounted(m, node, p, key, value) ==
  save_header([m EXCEPT !.heap[node.key] = PyInsert(@, p, key),
                        !.heap[node.data] = PyInsert(@, p, value)])

insert_pair(m, node, p, key, value) ==
  save_header([m EXCEPT !.heap[node.key] = PyInsert(@, p, key),
                        !.heap[node.data] = PyInsert(@, p, value),
                        !.hdr.keys = @ + 1])

setitem(m, key, value) ==
  With(m, LAMBDA s :
  IF to_str_len(value) > max_data_size THEN Raise(s, "ValueError")
  ELSE
  With(rec_search(s, s.hdr.root_offset, key), LAMBDA r :
    IF ~Ok(r.m) THEN r.m
    ELSE
    With(IF r.exists
         THEN [r.m EXCEPT !.heap[r.node.data] = PySet(@, r.position + 1, value)]
         ELSE insert_pair(r.m, r.node, r.position, key, value), LAMBDA m1 :
    With(save_node(m1, r.node), LAMBDA m2 :
      IF Ok(m2) /\ Len(K(m2, r.node)) = m2.hdr.num_keys
      THEN With(thread_ballance(m2, r.node.offset), LAMBDA t :
             IF Ok(t.m) /\ ~t.ret THEN split_node(t.m, r.node.offset) ELSE t.m)
      ELSE m2))))

\* __pop_max__: .m, .key, .data, .offset
RECURSIVE rightmost_leaf(_, _)
rightmost_leaf(m, offset) ==
  With(load_node(m, offset), LAMBDA ld :
    IF ~Ok(ld.m) \/ Len(L(ld.m, ld.node)) = 0 THEN ld
    ELSE rightmost_leaf(ld.m, L(ld.m, ld.node)[Len(L(ld.m, ld.node))]))

pop_max(m, offset) ==
  With(rightmost_leaf(m, offset), LAMBDA ld :
    IF ~Ok(ld.m) THEN [m |-> ld.m, key |-> 0, data |-> 0, offset |-> 0]
    ELSE IF Len(K(ld.m, ld.node)) = 0 \/ Len(D(ld.m, ld.node)) = 0
    THEN [m |-> Raise(ld.m, "IndexError"), key |-> 0, data |-> 0, offset |-> 0]
    ELSE LET k == K(ld.m, ld.node)
             d == D(ld.m, ld.node)
         IN
         With(save_node([ld.m EXCEPT !.heap[ld.node.key] = SubSeq(k, 1, Len(k) - 1),
                                     !.heap[ld.node.data] = SubSeq(d, 1, Len(d) - 1)],
                        ld.node), LAMBDA m1 :
           [m |-> m1, key |-> k[Len(k)], data |-> d[Len(d)],
            offset |-> ld.node.offset]))

\* "if not thread_ballance(offset): merge_node(offset)"
thread_or_merge(m, offset) ==
  With(thread_ballance(m, offset), LAMBDA t :
    IF Ok(t.m) /\ ~t.ret THEN merge_node(t.m, offset) ELSE t.m)

delitem(m, key) ==
  With(m, LAMBDA s :
  With(rec_search(s, s.hdr.root_offset, key), LAMBDA r :
    IF ~Ok(r.m) THEN r.m
    ELSE IF ~r.exists THEN Raise(r.m, "KeyError")
    ELSE
    LET node == r.node
        p == r.position
    IN
    With(save_header([r.m EXCEPT !.hdr.keys = @ - 1]), LAMBDA m1 :
    With(IF Len(L(m1, node)) > 0
         THEN With(pop_max(m1, L(m1, node)[p + 1]), LAMBDA mx :
              With(IF Ok(mx.m)
                   THEN [mx.m EXCEPT !.heap[node.key] = PySet(@, p + 1, mx.key),
                                     !.heap[node.data] = PySet(@, p + 1, mx.data)]
                   ELSE mx.m, LAMBDA b1 :
              With(save_node(b1, node), LAMBDA b2 :
              With(load_node(b2, mx.offset), LAMBDA popped :
                IF Ok(popped.m)
                   /\ Len(K(popped.m, popped.node)) < min_occup(popped.m)
                THEN thread_or_merge(popped.m, mx.offset)
                ELSE popped.m))))
         ELSE save_node([m1 EXCEPT !.heap[node.key] = PyRemove(@, p + 1),
                                   !.heap[node.data] = PyRemove(@, p + 1)],
                        node), LAMBDA m2 :
      IF Ok(m2) /\ Len(K(m2, node)) < min_occup(m2)
      THEN thread_or_merge(m2, node.offset)
      ELSE m2))))

\* __getitem__: .m, .err ("" or "KeyError"), .value
getitem(m, key) ==
  With(m, LAMBDA s :
  With(rec_search(s, s.hdr.root_offset, key), LAMBDA r :
    IF ~Ok(r.m) THEN [m |-> r.m, value |-> 0]
    ELSE IF ~r.exists THEN [m |-> Raise(r.m, "KeyError"), value |-> 0]
    ELSE IF r.position >= Len(D(r.m, r.node))
    THEN [m |-> Raise(r.m, "IndexError"), value |-> 0]
    ELSE [m |-> r.m, value |-> D(r.m, r.node)[r.position + 1]]))

\* __contains__: .m, .value
contains(m, item) ==
  With(m, LAMBDA s :
  With(rec_search(s, s.hdr.root_offset, item), LAMBDA r :
    [m |-> r.m, value |-> r.exists]))

len_(m) == m.hdr.keys

\* ------------------------------------------------------------- iterator
RECURSIVE iter_descend(_, _, _)
iter_descend(m, node, pos) ==
  IF ~Ok(m) \/ Len(L(m, node)) = 0 THEN [m |-> m, node |-> node, pos |-> pos]
  ELSE IF m.iter_dir = "direct"
  THEN With(load_node(m, L(m, node)[1]), LAMBDA ld :
         iter_descend(ld.m, ld.node, 0))
  ELSE With(load_node(m, L(m, node)[Len(L(m, node))]), LAMBDA ld :
         IF ~Ok(ld.m) THEN [m |-> ld.m, node |-> node, pos |-> pos]
         ELSE iter_descend(ld.m, ld.node, Len(K(ld.m, ld.node)) - 1))

\* __iter__
iter_(m) ==
  With(m, LAMBDA s :
  With(load_node(s, s.hdr.root_offset), LAMBDA ld :
    IF ~Ok(ld.m) THEN ld.m
    ELSE With(iter_descend(ld.m, ld.node, s.iter_pos), LAMBDA d :
           IF ~Ok(d.m) THEN d.m
           ELSE [d.m EXCEPT !.iter_node = d.node, !.iter_pos = d.pos])))

RECURSIVE iter_check_end(_)
iter_check_end(m) ==
  IF ~Ok(m) THEN m
  ELSE IF m.iter_node = None THEN Raise(m, "TypeError")
  ELSE IF m.iter_pos = Len(K(m, m.iter_node)) \/ m.iter_pos = -1
  THEN IF m.iter_node.offset = m.hdr.root_offset
       THEN Raise([m EXCEPT !.iter_dir = "direct"], "StopIteration")
       ELSE IF Len(K(m, m.iter_node)) = 0 THEN Raise(m, "IndexError")
       ELSE With(load_node(m, m.iter_node.upper_node), LAMBDA ld :
              IF ~Ok(ld.m) THEN ld.m
              ELSE With(binsearch(K(m, m.iter_node)[1], K(ld.m, ld.node)),
                        LAMBDA pos :
                   With([ld.m EXCEPT !.iter_node = ld.node,
                                     !.iter_pos = IF ld.m.iter_dir = "reverse"
                                                  THEN pos - 1 ELSE pos],
                        LAMBDA m1 : iter_check_end(m1))))
  ELSE m

RECURSIVE leftmost_leaf(_, _)
leftmost_leaf(m, offset) ==
  With(load_node(m, offset), LAMBDA ld :
    IF ~Ok(ld.m) \/ Len(L(ld.m, ld.node)) = 0 THEN ld
    ELSE leftmost_leaf(ld.m, L(ld.m, ld.node)[1]))

\* __next__: .m (err "StopIteration" at the end) and .value
next_(m) ==
  With(iter_check_end(m), LAMBDA m1 :
    IF ~Ok(m1) THEN [m |-> m1, value |-> 0]
    ELSE
    LET node == m1.iter_node
        pos == m1.iter_pos
        k == K(m1, node)
        low == L(m1, node)
    IN IF ~PyValid(k, pos) THEN [m |-> Raise(m1, "IndexError"), value |-> 0]
       ELSE
       LET result == k[PyPos(k, pos)]
       IN IF Len(low) = 0
          THEN [m |-> [m1 EXCEPT !.iter_pos = IF m1.iter_dir = "direct"
                                               THEN pos + 1 ELSE pos - 1],
                value |-> result]
          ELSE IF m1.iter_dir = "direct"
          THEN IF ~PyValid(low, pos + 1)
               THEN [m |-> Raise(m1, "IndexError"), value |-> 0]
               ELSE With(leftmost_leaf(m1, low[PyPos(low, pos + 1)]), LAMBDA ld :
                      [m |-> IF Ok(ld.m)
                             THEN [ld.m EXCEPT !.iter_node = ld.node, !.iter_pos = 0]
                             ELSE ld.m,
                       value |-> result])
          ELSE IF ~PyValid(low, pos)
               THEN [m |-> Raise(m1, "IndexError"), value |-> 0]
               ELSE With(rightmost_leaf(m1, low[PyPos(low, pos)]), LAMBDA ld :
                      [m |-> IF Ok(ld.m)
                             THEN [ld.m EXCEPT !.iter_node = ld.node,
                                               !.iter_pos = Len(K(ld.m, ld.node)) - 1]
                             ELSE ld.m,
                       value |-> result]))

\* __reversed__
reversed_(m) == [m EXCEPT !.iter_dir = "reverse"]

\* ---------------------------------------------------- consistency check
Fail == [fail |-> TRUE, min |-> 0, max |-> 0, upper_offset |-> 0]

Pass(mn, mx, up) == [fail |-> FALSE, min |-> mn, max |-> mx, upper_offset |-> up]

\* __check_consistency__: .m and .res (Fail stands for None)
RECURSIVE check_rec(_, _, _, _)
RECURSIVE check_keys(_, _, _, _, _)
check_keys(m, node, i, min_key, max_key) ==
  LET k == K(m, node)
      low == L(m, node)
  IN IF ~Ok(m) THEN [m |-> m, res |-> Fail]
     ELSE IF i >= Len(k) THEN [m |-> m, res |-> Pass(min_key, max_key, node.upper_node)]
     ELSE
     With(check_rec(m, low[i + 1], IF i > 0 THEN low[i] ELSE 0, low[i + 2]),
          LAMBDA lc :
     With(check_rec(lc.m, low[i + 2], low[i + 1],
                    IF i + 1 < Len(k) THEN low[i + 3] ELSE 0), LAMBDA rc :
       IF ~Ok(rc.m) \/ lc.res.fail \/ rc.res.fail THEN [m |-> rc.m, res |-> Fail]
       ELSE IF lc.res.upper_offset # node.offset \/ rc.res.upper_offset # node.offset
       THEN [m |-> rc.m, res |-> Fail]
       ELSE IF lc.res.max >= k[i + 1] \/ rc.res.min <= k[i + 1] \/ k[i + 1] < max_key
       THEN [m |-> rc.m, res |-> Fail]
       ELSE check_keys(rc.m, node, i + 1,
                       IF lc.res.min < min_key THEN lc.res.min ELSE min_key,
                       IF rc.res.max > max_key THEN rc.res.max ELSE max_key)))

check_rec(m, offset, left, right) ==
  With(load_node(m, offset), LAMBDA ld :
    LET node == ld.node
        m1 == ld.m
    IN IF ~Ok(m1) THEN [m |-> m1, res |-> Fail]
       ELSE
       LET k == K(m1, node)
           low == L(m1, node)
       IN IF Len(k) >= m1.hdr.num_keys THEN [m |-> m1, res |-> Fail]
          ELSE IF Len(k) < min_occup(m1)
          THEN IF node.offset = m1.hdr.root_offset
               THEN [m |-> m1, res |-> Pass(0, 0, 0)]
               ELSE [m |-> m1, res |-> Fail]
          ELSE IF node.left_node # left \/ node.right_node # right
          THEN [m |-> m1, res |-> Fail]
          ELSE IF Len(k) = 0 THEN [m |-> Raise(m1, "IndexError"), res |-> Fail]
          ELSE IF Len(low) > 0
          THEN IF Len(low) # Len(k) + 1 THEN [m |-> m1, res |-> Fail]
               ELSE check_keys(m1, node, 0, k[Len(k)], k[1])
          ELSE IF \E i \in 1..(Len(k) - 1) : k[i + 1] <= k[i]
          THEN [m |-> m1, res |-> Fail]
          ELSE [m |-> m1, res |-> Pass(k[1], k[Len(k)], node.upper_node)])

\* check_consistency(): .m and .value
check_consistency(m) ==
  With(m, LAMBDA s :
  With(check_rec(s, s.hdr.root_offset, 0, 0), LAMBDA c :
    [m |-> c.m, value |-> Ok(c.m) /\ ~c.res.fail]))

\* -------------------------------------------------- list objects in use
\* Between two calls the list objects that exist are those the cached nodes
\* and the iterator's node refer to.  Canon renumbers them in the order of
\* cached offset, so that equal object graphs are equal states.
SortedSeq(S) ==
  [i \in 1..Cardinality(S) |->
     CHOOSE x \in S : Cardinality({y \in S : y < x}) = i - 1]

RefsOf(c, offs) ==
  [i \in 1..(3 * Len(offs)) |->
     IF i % 3 = 1 THEN c[offs[(i + 2) \div 3]].key
     ELSE IF i % 3 = 2 THEN c[offs[(i + 2) \div 3]].data
     ELSE c[offs[(i + 2) \div 3]].lower_node]

\* refs without repetitions, in the order of first occurrence
Distinct(refs, seen) ==
  With({i \in 1..Len(refs) :
          /\ \A j \in 1..(i - 1) : refs[j] # refs[i]
          /\ \A j \in 1..Len(seen) : seen[j] # refs[i]}, LAMBDA first :
    seen \o [n \in 1..Cardinality(first) |->
               refs[CHOOSE i \in first :
                      Cardinality({j \in first : j < i}) = n - 1]])

Canon(m) ==
  With(m, LAMBDA s :
  With(Distinct(RefsOf(s.cache, SortedSeq(DOMAIN s.cache))
                \o (IF s.iter_node = None THEN <<>>
                    ELSE <<s.iter_node.key, s.iter_node.data,
                           s.iter_node.lower_node>>), <<>>), LAMBDA live :
    LET newid(x) == CHOOSE n \in 1..Len(live) : live[n] = x
        ren(d) == [d EXCEPT !.key = newid(@), !.data = newid(@),
                            !.lower_node = newid(@)]
    IN [s EXCEPT !.heap = [n \in 1..Len(live) |-> s.heap[live[n]]],
                 !.cache = [o \in DOMAIN s.cache |-> ren(s.cache[o])],
                 !.iter_node = IF @ = None THEN None ELSE ren(@)]))

\* ------------------------------------------------------------ instances
\* b3dict(file_name, num_keys, key_size, data_size) on a path with no file
new_header(num_keys, data_size) ==
  [num_keys |-> num_keys, data_size |-> data_size, root_offset |-> 1,
   free_offset |-> <<>>, last_offset |-> 1, nodes |-> 1, keys |-> 0,
   splits |-> 0, merges |-> 0, threads_left |-> 0, threads_right |-> 0,
   levels |-> 1]

empty_node(offset) ==
  [offset |-> offset, upper_node |-> 0, left_node |-> 0, right_node |-> 0,
   key |-> <<>>, data |-> <<>>, lower_node |-> <<>>]

create(num_keys, data_size) ==
  [hdr |-> new_header(num_keys, data_size),
   dhdr |-> new_header(num_keys, data_size),
   file |-> <<empty_node(1)>>, cache |-> <<>>, heap |-> <<>>,
   iter_node |-> None, iter_pos |-> 0, iter_dir |-> "direct",
   min_occup |-> trunc_div(num_keys, 3), err |-> ""]

\* b3dict(file_name, num_keys) on the path of the existing file: a new
\* instance; the audit runs with min_occup of the num_keys argument
\* (line 88), the header's comes last (line 173)
open_existing(m, num_keys) ==
  With([hdr |-> m.dhdr, dhdr |-> m.dhdr, file |-> m.file, cache |-> <<>>,
        heap |-> <<>>, iter_node |-> None, iter_pos |-> 0,
        iter_dir |-> "direct", min_occup |-> trunc_div(num_keys, 3),
        err |-> ""], LAMBDA m0 :
  With(check_consistency(m0), LAMBDA c :
    IF ~Ok(c.m) THEN c.m
    ELSE IF ~c.value THEN Raise(c.m, "Corrupt")
    ELSE [c.m EXCEPT !.min_occup = trunc_div(c.m.hdr.num_keys, 3)]))

\* -------------------------------------------------------- the stored tree
\* what a caller observes of get(k) in the current state: the value, 0 for
\* KeyError, -1 for any other exception
lookup(m, k) ==
  With(getitem(m, k), LAMBDA g :
    IF Ok(g.m) THEN g.value ELSE IF g.m.err = "KeyError" THEN 0 ELSE -1)

Content == [k \in Keys |-> lookup(Mach, k)]

\* the node record at offset o as the instance reads it: the cached dict,
\* else the slot of the file
Readable(o) ==
  o \in DOMAIN cache \/ (o >= 1 /\ o <= Len(file) /\ file[o] # Hole)

View(o) == IF o \in DOMAIN cache THEN Dump(Mach, cache[o]) ELSE file[o]

Range(s) == {s[i] : i \in 1..Len(s)}

\* the offsets of the subtree under o, o included; depth counts down from
\* the number of slots
RECURSIVE Below(_, _)
Below(o, depth) ==
  IF depth = 0 \/ ~Readable(o) THEN {o}
  ELSE {o} \cup UNION {Below(c, depth - 1) : c \in Range(View(o).lower_node)}

Nodes == Below(hdr.root_offset, Len(file))

KeysUnder(o) ==
  UNION {Range(View(n).key) : n \in {x \in Below(o, Len(file)) : Readable(x)}}

TreeKeys == KeysUnder(hdr.root_offset)

RECURSIVE KeyCount(_)
KeyCount(S) ==
  IF S = {} THEN 0
  ELSE LET n == CHOOSE x \in S : TRUE
       IN Len(View(n).key) + KeyCount(S \ {n})

\* the numbers of nodes on the paths from o down to the leaves under it,
\* o counting as node number d; 0 stands for a path that meets an
\* unreadable slot or is longer than the file has slots
RECURSIVE LeafDepths(_, _)
LeafDepths(o, d) ==
  IF ~Readable(o) \/ d > Len(file) THEN {0}
  ELSE IF Len(View(o).lower_node) = 0 THEN {d}
  ELSE UNION {LeafDepths(c, d + 1) : c \in Range(View(o).lower_node)}

Ascending(s) == \A i \in 1..(Len(s) - 1) : s[i] < s[i + 1]

\* the keys a fresh "for k in store" loop collects from machine m: __iter__,
\* then __next__ until StopIteration; another exception ends the list with 0
RECURSIVE drain(_, _, _)
drain(m, acc, fuel) ==
  With(next_(m), LAMBDA n :
    IF Ok(n.m) /\ fuel > 0 THEN drain(n.m, Append(acc, n.value), fuel - 1)
    ELSE IF n.m.err = "StopIteration" THEN acc
    ELSE Append(acc, 0))

iter_all(m) == drain(iter_(m), <<>>, 2 * Cardinality(Keys))

StoredKeys == {k \in Keys : Content[k] > 0}

\* --------------------------------------------------------------- actions
\* pre records what the store was when the last call began: both headers,
\* the file, the iterator's direction, what get returned for every key and
\* the keys held in the tree
Snapshot ==
  [hdr |-> hdr, dhdr |-> dhdr, file |-> file, iter_dir |-> iter_dir,
   content |-> Content, keys |-> TreeKeys]

Commit(m0) ==
  \E m \in {Canon(m0)} :
     /\ hdr' = m.hdr
     /\ dhdr' = m.dhdr
     /\ file' = m.file
     /\ cache' = m.cache
     /\ heap' = m.heap
     /\ iter_node' = m.iter_node
     /\ iter_pos' = m.iter_pos
     /\ iter_dir' = m.iter_dir
     /\ self_min_occup' = m.min_occup

Result(op, key, value, err) == [op |-> op, key |-> key, value |-> value, err |-> err]

\* errors of the documented API; any other exception breaks the instance
ApiErrors == {"", "KeyError", "ValueError", "StopIteration"}

Alive == ret.err \in ApiErrors

\* the statistics counters grow without limit; calls that may count are
\* explored while their total is below MaxStat
StatTotal == hdr.splits + hdr.merges + hdr.threads_left + hdr.threads_right

Bounded == StatTotal < MaxStat

Init ==
  /\ \E nk \in NumKeysArgs :
       \E m \in {create(nk, DataSizeArg)} :
          /\ hdr = m.hdr
          /\ dhdr = m.dhdr
          /\ file = m.file
          /\ cache = m.cache
          /\ heap = m.heap
          /\ iter_node = m.iter_node
          /\ iter_pos = m.iter_pos
          /\ iter_dir = m.iter_dir
          /\ self_min_occup = m.min_occup
  /\ ret = Result("create", 0, 0, "")
  /\ yielded = <<>>
  /\ iterating = FALSE
  /\ pending = <<>>
  /\ pre = Snapshot

Put(k, v) ==
  /\ Alive /\ Bounded /\ ~iterating
  /\ pre' = Snapshot
  /\ \E m \in {setitem(Mach, k, v)} :
        Commit(m) /\ ret' = Result("put", k, v, m.err)
  /\ yielded' = <<>>
  /\ UNCHANGED <<iterating, pending>>

Delete(k) ==
  /\ Alive /\ Bounded /\ ~iterating
  /\ pre' = Snapshot
  /\ \E m \in {delitem(Mach, k)} :
        Commit(m) /\ ret' = Result("delete", k, 0, m.err)
  /\ yielded' = <<>>
  /\ UNCHANGED <<iterating, pending>>

Get(k) ==
  /\ Alive /\ ~iterating
  /\ pre' = Snapshot
  /\ \E g \in {getitem(Mach, k)} :
        Commit(g.m) /\ ret' = Result("get", k, g.value, g.m.err)
  /\ yielded' = <<>>
  /\ UNCHANGED <<iterating, pending>>

Iter ==
  /\ Alive
  /\ pre' = Snapshot
  /\ \E m \in {iter_(Mach)} :
        Commit(m) /\ ret' = Result("iter", 0, 0, m.err)
  /\ yielded' = <<>>
  /\ iterating' = TRUE
  /\ UNCHANGED pending

Next_ ==
  /\ Alive /\ iterating
  /\ pre' = Snapshot
  /\ \E n \in {next_(Mach)} :
        /\ Commit(n.m)
        /\ ret' = Result("next", 0, n.value, n.m.err)
        /\ yielded' = IF Ok(n.m) THEN Append(yielded, n.value) ELSE yielded
        /\ iterating' = Ok(n.m)
  /\ UNCHANGED pending

\* the caller leaves the loop before the iterator is exhausted
Abandon ==
  /\ Alive /\ iterating
  /\ pre' = Snapshot
  /\ iterating' = FALSE
  /\ UNCHANGED pending
  /\ ret' = Result("abandon", 0, 0, "")
  /\ UNCHANGED <<hdr, dhdr, file, cache, heap, iter_node, iter_pos, iter_dir,
                 self_min_occup, yielded>>

Reversed ==
  /\ Alive /\ ~iterating /\ iter_dir = "direct"
  /\ pre' = Snapshot
  /\ Commit(reversed_(Mach))
  /\ ret' = Result("reversed", 0, 0, "")
  /\ yielded' = <<>>
  /\ UNCHANGED <<iterating, pending>>

CheckConsistency ==
  /\ Alive /\ ~iterating
  /\ pre' = Snapshot
  /\ \E c \in {check_consistency(Mach)} :
        Commit(c.m) /\ ret' = Result("check", 0, IF c.value THEN 1 ELSE 0, c.m.err)
  /\ yielded' = <<>>
  /\ UNCHANGED <<iterating, pending>>

OpenArgs == {3, 512}

Reopen(nk) ==
  /\ Alive /\ ~iterating
  /\ pre' = Snapshot
  /\ \E m \in {open_existing(Mach, nk)} :
        Commit(m) /\ ret' = Result("open", nk, 0, m.err)
  /\ yielded' = <<>>
  /\ UNCHANGED <<iterating, pending>>

Next ==
  \/ \E a \in PutArgs : Put(a[1], a[2])
  \/ \E k \in Keys : Delete(k)
  \/ \E k \in Keys : Get(k)
  \/ CheckConsistency
  \/ \E nk \in OpenArgs : Reopen(nk)

\* calls of a caller that never iterates
Spec == Init /\ [][Next]_vars

\* calls of a caller that also iterates, forward and in reverse, over the
\* keys up to MaxIterKey
MaxIterKey == 3

IterKeys == 1..MaxIterKey

NextIter ==
  \/ \E k \in IterKeys : Put(k, DataSizeArg)
  \/ \E k \in IterKeys : Delete(k)
  \/ Iter
  \/ Next_
  \/ Abandon
  \/ Reversed

SpecIter == Init /\ [][NextIter]_vars

\* calls of a caller that fills the store in ascending key order (each put
\* stores the least key not yet held) until the tree has three levels, and
\* then deletes any key and refills; up to MaxDeepStat rotations, splits and
\* merges
MaxDeepKey == 9

MaxDeepStat == 10

DeepKeys == 1..MaxDeepKey

PutDeep(k) ==
  /\ Alive /\ ~iterating /\ StatTotal < MaxDeepStat
  /\ k \notin TreeKeys /\ \A j \in 1..(k - 1) : j \in TreeKeys
  /\ pre' = Snapshot
  /\ \E m \in {setitem(Mach, k, DataSizeArg)} :
        Commit(m) /\ ret' = Result("put", k, DataSizeArg, m.err)
  /\ yielded' = <<>>
  /\ UNCHANGED <<iterating, pending>>

DeleteDeep(k) ==
  /\ Alive /\ ~iterating /\ StatTotal < MaxDeepStat
  /\ hdr.levels >= 3
  /\ pre' = Snapshot
  /\ \E m \in {delitem(Mach, k)} :
        Commit(m) /\ ret' = Result("delete", k, 0, m.err)
  /\ yielded' = <<>>
  /\ UNCHANGED <<iterating, pending>>

NextDeep ==
  \/ \E k \in DeepKeys : PutDeep(k)
  \/ \E k \in DeepKeys : DeleteDeep(k)

SpecDeep == Init /\ [][NextDeep]_vars

\* a stored file that another program has rewritten: one node record of the
\* tree, not the root's, with its keys in reverse order, its upper_node
\* pointing at itself, its sibling links cleared, or its keys and data gone
DamageKinds == {"order", "upper", "sibling", "empty"}

Damaged(rec, kind) ==
  IF kind = "order"
  THEN [rec EXCEPT !.key = [i \in 1..Len(@) |-> @[Len(@) + 1 - i]]]
  ELSE IF kind = "upper" THEN [rec EXCEPT !.upper_node = rec.offset]
  ELSE IF kind = "sibling" THEN [rec EXCEPT !.left_node = 0, !.right_node = 0]
  ELSE [rec EXCEPT !.key = <<>>, !.data = <<>>]

Damage(o, kind) ==
  /\ Alive /\ ~iterating
  /\ o # hdr.root_offset /\ o >= 1 /\ o <= Len(file) /\ file[o] # Hole
  /\ Damaged(file[o], kind) # file[o]
  /\ pre' = Snapshot
  /\ file' = [file EXCEPT ![o] = Damaged(@, kind)]
  /\ ret' = Result("damage", o, 0, "")
  /\ yielded' = <<>>
  /\ UNCHANGED <<hdr, dhdr, cache, heap, iter_node, iter_pos, iter_dir,
                 self_min_occup, iterating, pending>>

\* stores created with num_keys 3 and 6 are filled in ascending key order;
\* a node record is damaged on disk, a new instance is opened on the file
\* and, when that succeeds, check_consistency() is called on it
AuditNumKeys == {3, 6}

AuditOpenArgs == {3, 6, 512}

InitWith(nk) ==
  /\ \E m \in {create(nk, DataSizeArg)} :
        /\ hdr = m.hdr
        /\ dhdr = m.dhdr
        /\ file = m.file
        /\ cache = m.cache
        /\ heap = m.heap
        /\ iter_node = m.iter_node
        /\ iter_pos = m.iter_pos
        /\ iter_dir = m.iter_dir
        /\ self_min_occup = m.min_occup
  /\ ret = Result("create", 0, 0, "")
  /\ yielded = <<>>
  /\ iterating = FALSE
  /\ pending = <<>>
  /\ pre = Snapshot

InitAudit == \E nk \in AuditNumKeys : InitWith(nk)

NextAudit ==
  \/ ret.op \in {"create", "put"} /\ \E k \in DeepKeys : PutDeep(k)
  \/ ret.op = "put" /\ \E o \in Nodes : \E kind \in DamageKinds : Damage(o, kind)
  \/ ret.op = "damage" /\ \E nk \in AuditOpenArgs : Reopen(nk)
  \/ ret.op = "open" /\ CheckConsistency

SpecAudit == InitAudit /\ [][NextAudit]_vars

\* the tree stored under root_offset violates a property of the audit: a
\* node with num_keys keys or more, a non-root node below min_occup, a
\* sibling link that is not the neighbour in the parent's child list, an
\* internal node without len(key) + 1 children, a key not between the keys
\* of the subtrees beside it, a child whose upper_node is not its parent, or
\* a leaf whose keys are not strictly ascending
AuditedViolation ==
  \E o \in {x \in Nodes : Readable(x)} :
    LET k == View(o).key
        low == View(o).lower_node
    IN \/ Len(k) >= hdr.num_keys
       \/ o # hdr.root_offset /\ Len(k) < trunc_div(hdr.num_keys, 3)
       \/ Len(low) > 0 /\ Len(low) # Len(k) + 1
       \/ Len(low) = 0 /\ ~Ascending(k)
       \/ \E i \in 1..Len(low) :
            /\ Readable(low[i])
            /\ \/ View(low[i]).upper_node # o
               \/ View(low[i]).left_node # (IF i = 1 THEN 0 ELSE low[i - 1])
               \/ View(low[i]).right_node # (IF i = Len(low) THEN 0 ELSE low[i + 1])
       \/ \E j \in 1..Len(k) :
            \/ j <= Len(low) /\ \E x \in KeysUnder(low[j]) : x >= k[j]
            \/ j + 1 <= Len(low) /\ \E x \in KeysUnder(low[j + 1]) : x <= k[j]

\* a store of num_keys 3 filled in descending key order from MaxCompactKey
\* down, and emptied from its greatest key once it holds MinCompactFill
\* keys or more: the merges free more than max_free_nodes nodes, so the
\* compaction branch of __free_node__ runs
MaxCompactKey == 48

MinCompactFill == 21

CompactKeys == 1..MaxCompactKey

PutCompact(k) ==
  /\ Alive /\ ~iterating
  /\ \/ TreeKeys = {} /\ k = MaxCompactKey /\ hdr.merges = 0
     \/ /\ MaxCompactKey \in TreeKeys
        /\ \A j \in TreeKeys : k < j
        /\ \A i \in (k + 1)..MaxCompactKey : i \in TreeKeys
  /\ pre' = Snapshot
  /\ \E m \in {setitem(Mach, k, DataSizeArg)} :
        Commit(m) /\ ret' = Result("put", k, DataSizeArg, m.err)
  /\ yielded' = <<>>
  /\ UNCHANGED <<iterating, pending>>

DeleteCompact(k) ==
  /\ Alive /\ ~iterating
  /\ k \in TreeKeys
  /\ \A j \in TreeKeys : j <= k
  /\ \/ Cardinality(TreeKeys) >= MinCompactFill
     \/ MaxCompactKey \notin TreeKeys
  /\ pre' = Snapshot
  /\ \E m \in {delitem(Mach, k)} :
        Commit(m) /\ ret' = Result("delete", k, 0, m.err)
  /\ yielded' = <<>>
  /\ UNCHANGED <<iterating, pending>>

NextCompact ==
  \/ \E k \in CompactKeys : PutCompact(k)
  \/ \E k \in CompactKeys : DeleteCompact(k)

SpecCompact == Init /\ [][NextCompact]_vars

\* a recorded run of a store of num_keys 7: 77 keys are put in the order
\* of StaleCalls and deleted from the greatest key down, with two more puts
\* on the way.  The last delete frees a leaf while the free list is full
\* and the last slot of the file holds the leaf's parent
StaleNumKeys == 7

StaleCalls ==
  <<
     <<"put", 53>>, <<"put", 62>>, <<"put", 77>>, <<"put", 25>>,
     <<"put", 34>>, <<"put", 48>>, <<"put", 4>>, <<"put", 78>>,
     <<"put", 41>>, <<"put", 22>>, <<"put", 19>>, <<"put", 28>>,
     <<"put", 12>>, <<"put", 67>>, <<"put", 11>>, <<"put", 15>>,
     <<"put", 55>>, <<"put", 6>>, <<"put", 75>>, <<"put", 63>>,
     <<"put", 29>>, <<"put", 17>>, <<"put", 21>>, <<"put", 5>>,
     <<"put", 7>>, <<"put", 38>>, <<"put", 1>>, <<"put", 26>>, <<"put", 2>>,
     <<"put", 9>>, <<"put", 30>>, <<"put", 56>>, <<"put", 46>>,
     <<"put", 23>>, <<"put", 10>>, <<"put", 51>>, <<"put", 66>>,
     <<"put", 76>>, <<"put", 74>>, <<"put", 14>>, <<"put", 60>>,
     <<"put", 39>>, <<"put", 72>>, <<"put", 71>>, <<"put", 73>>,
     <<"put", 45>>, <<"put", 61>>, <<"put", 43>>, <<"put", 44>>,
     <<"put", 13>>, <<"put", 57>>, <<"put", 52>>, <<"put", 31>>,
     <<"put", 33>>, <<"put", 50>>, <<"put", 27>>, <<"put", 59>>,
     <<"put", 64>>, <<"put", 42>>, <<"put", 8>>, <<"put", 70>>,
     <<"put", 32>>, <<"put", 65>>, <<"put", 49>>, <<"put", 40>>,
     <<"put", 69>>, <<"put", 20>>, <<"put", 54>>, <<"put", 47>>,
     <<"put", 24>>, <<"put", 35>>, <<"put", 3>>, <<"put", 58>>,
     <<"put", 16>>, <<"put", 37>>, <<"put", 68>>, <<"put", 18>>,
     <<"delete", 78>>, <<"delete", 77>>, <<"delete", 75>>, <<"delete", 74>>,
     <<"delete", 73>>, <<"delete", 72>>, <<"delete", 71>>, <<"delete", 70>>,
     <<"delete", 69>>, <<"delete", 68>>, <<"delete", 67>>, <<"delete", 66>>,
     <<"delete", 65>>, <<"delete", 64>>, <<"delete", 63>>, <<"delete", 62>>,
     <<"delete", 61>>, <<"delete", 60>>, <<"delete", 59>>, <<"delete", 58>>,
     <<"delete", 57>>, <<"delete", 56>>, <<"delete", 55>>, <<"delete", 54>>,
     <<"delete", 53>>, <<"put", 36>>, <<"delete", 52>>, <<"delete", 51>>,
     <<"delete", 50>>, <<"delete", 48>>, <<"delete", 47>>, <<"delete", 46>>,
     <<"put", 79>>, <<"delete", 79>>, <<"delete", 45>>, <<"delete", 49>>,
     <<"delete", 44>>, <<"delete", 43>>, <<"delete", 42>>, <<"delete", 41>>,
     <<"delete", 40>>, <<"delete", 39>>, <<"delete", 38>>, <<"delete", 37>>,
     <<"delete", 36>>, <<"delete", 35>>, <<"delete", 34>>, <<"delete", 33>>,
     <<"delete", 32>>, <<"delete", 31>>, <<"delete", 30>>, <<"delete", 29>>,
     <<"delete", 28>>, <<"delete", 27>>, <<"delete", 26>>
  >>

\* the number of calls of StaleCalls made so far (no call occurs twice)
StalePos ==
  IF ret.op = "create" THEN 0
  ELSE CHOOSE i \in 1..Len(StaleCalls) : StaleCalls[i] = <<ret.op, ret.key>>

InitStale == InitWith(StaleNumKeys)

PutStale(k) ==
  /\ Alive /\ ~iterating
  /\ StalePos < Len(StaleCalls)
  /\ StaleCalls[StalePos + 1] = <<"put", k>>
  /\ pre' = Snapshot
  /\ \E m \in {setitem(Mach, k, DataSizeArg)} :
        Commit(m) /\ ret' = Result("put", k, DataSizeArg, m.err)
  /\ yielded' = <<>>
  /\ UNCHANGED <<iterating, pending>>

DeleteStale(k) ==
  /\ Alive /\ ~iterating
  /\ StalePos < Len(StaleCalls)
  /\ StaleCalls[StalePos + 1] = <<"delete", k>>
  /\ pre' = Snapshot
  /\ \E m \in {delitem(Mach, k)} :
        Commit(m) /\ ret' = Result("delete", k, 0, m.err)
  /\ yielded' = <<>>
  /\ UNCHANGED <<iterating, pending>>

StaleKeys == {StaleCalls[i][2] : i \in 1..Len(StaleCalls)}

NextStale ==
  \/ \E k \in StaleKeys : PutStale(k)
  \/ \E k \in StaleKeys : DeleteStale(k)

SpecStale == InitStale /\ [][NextStale]_vars

\* a recorded run of a store of num_keys 8: 195 calls, 114 of them puts, no
\* call made twice.  In the call before the last a merge frees a leaf while
\* the free list is full and the last slot of the file holds the parent the
\* merge goes on to balance
MovedNumKeys == 8

MovedCalls ==
  <<
     <<"put", 33>>, <<"put", 14>>, <<"put", 89>>, <<"put", 13>>,
     <<"put", 42>>, <<"put", 56>>, <<"put", 51>>, <<"put", 35>>,
     <<"put", 54>>, <<"put", 5>>, <<"put", 34>>, <<"put", 102>>,
     <<"put", 16>>, <<"put", 90>>, <<"put", 39>>, <<"put", 32>>,
     <<"put", 103>>, <<"put", 11>>, <<"put", 98>>, <<"put", 109>>,
     <<"put", 97>>, <<"put", 91>>, <<"put", 105>>, <<"put", 84>>,
     <<"put", 69>>, <<"put", 24>>, <<"put", 53>>, <<"put", 7>>,
     <<"put", 107>>, <<"put", 96>>, <<"put", 19>>, <<"put", 95>>,
     <<"put", 36>>, <<"put", 29>>, <<"put", 48>>, <<"put", 26>>,
     <<"put", 80>>, <<"put", 63>>, <<"put", 9>>, <<"put", 3>>,
     <<"put", 114>>, <<"put", 93>>, <<"put", 30>>, <<"put", 86>>,
     <<"put", 59>>, <<"put", 37>>, <<"put", 64>>, <<"put", 60>>,
     <<"put", 45>>, <<"put", 110>>, <<"put", 77>>, <<"put", 22>>,
     <<"put", 49>>, <<"put", 108>>, <<"put", 50>>, <<"put", 68>>,
     <<"put", 21>>, <<"put", 75>>, <<"put", 55>>, <<"put", 23>>,
     <<"put", 2>>, <<"put", 82>>, <<"put", 58>>, <<"put", 111>>,
     <<"put", 66>>, <<"put", 79>>, <<"put", 106>>, <<"put", 83>>,
     <<"put", 85>>, <<"put", 73>>, <<"put", 72>>, <<"put", 28>>,
     <<"put", 17>>, <<"put", 113>>, <<"put", 71>>, <<"put", 101>>,
     <<"put", 52>>, <<"put", 62>>, <<"put", 104>>, <<"put", 27>>,
     <<"put", 44>>, <<"put", 67>>, <<"put", 76>>, <<"put", 1>>,
     <<"put", 61>>, <<"delete", 80>>, <<"delete", 84>>, <<"delete", 30>>,
     <<"delete", 51>>, <<"delete", 44>>, <<"delete", 33>>, <<"delete", 17>>,
     <<"delete", 53>>, <<"delete", 69>>, <<"delete", 54>>, <<"delete", 9>>,
     <<"delete", 3>>, <<"delete", 14>>, <<"delete", 56>>, <<"delete", 75>>,
     <<"delete", 76>>, <<"delete", 22>>, <<"delete", 73>>, <<"delete", 26>>,
     <<"delete", 67>>, <<"delete", 86>>, <<"delete", 11>>, <<"delete", 16>>,
     <<"delete", 24>>, <<"delete", 34>>, <<"delete", 50>>, <<"delete", 48>>,
     <<"delete", 95>>, <<"delete", 42>>, <<"delete", 49>>, <<"delete", 5>>,
     <<"delete", 19>>, <<"delete", 39>>, <<"delete", 77>>, <<"put", 8>>,
     <<"put", 87>>, <<"put", 15>>, <<"put", 46>>, <<"put", 31>>,
     <<"put", 112>>, <<"put", 47>>, <<"put", 88>>, <<"put", 99>>,
     <<"put", 25>>, <<"put", 100>>, <<"put", 38>>, <<"put", 43>>,
     <<"put", 6>>, <<"put", 41>>, <<"put", 92>>, <<"put", 20>>,
     <<"put", 57>>, <<"put", 65>>, <<"put", 4>>, <<"put", 40>>,
     <<"put", 12>>, <<"put", 94>>, <<"put", 78>>, <<"put", 10>>,
     <<"put", 70>>, <<"put", 18>>, <<"put", 81>>, <<"put", 74>>,
     <<"delete", 1>>, <<"delete", 96>>, <<"delete", 23>>, <<"delete", 99>>,
     <<"delete", 8>>, <<"delete", 36>>, <<"delete", 85>>, <<"delete", 91>>,
     <<"delete", 94>>, <<"delete", 83>>, <<"delete", 110>>, <<"delete", 10>>,
     <<"delete", 55>>, <<"delete", 90>>, <<"delete", 107>>, <<"delete", 28>>,
     <<"delete", 108>>, <<"delete", 32>>, <<"delete", 112>>, <<"delete", 13>>,
     <<"delete", 88>>, <<"delete", 114>>, <<"delete", 15>>, <<"delete", 101>>,
     <<"delete", 4>>, <<"delete", 113>>, <<"delete", 58>>, <<"delete", 92>>,
     <<"delete", 74>>, <<"delete", 57>>, <<"delete", 111>>, <<"delete", 21>>,
     <<"delete", 35>>, <<"delete", 81>>, <<"delete", 97>>, <<"delete", 66>>,
     <<"delete", 6>>, <<"delete", 72>>, <<"delete", 100>>, <<"delete", 71>>,
     <<"delete", 27>>, <<"delete", 102>>, <<"delete", 20>>, <<"delete", 40>>,
     <<"delete", 12>>, <<"delete", 89>>, <<"delete", 98>>
  >>

\* the number of calls of MovedCalls made so far (no call occurs twice)
MovedPos ==
  IF ret.op = "create" THEN 0
  ELSE CHOOSE i \in 1..Len(MovedCalls) : MovedCalls[i] = <<ret.op, ret.key>>

InitMoved == InitWith(MovedNumKeys)

PutMoved(k) ==
  /\ Alive /\ ~iterating
  /\ MovedPos < Len(MovedCalls)
  /\ MovedCalls[MovedPos + 1] = <<"put", k>>
  /\ pre' = Snapshot
  /\ \E m \in {setitem(Mach, k, DataSizeArg)} :
        Commit(m) /\ ret' = Result("put", k, DataSizeArg, m.err)
  /\ yielded' = <<>>
  /\ UNCHANGED <<iterating, pending>>

DeleteMoved(k) ==
  /\ Alive /\ ~iterating
  /\ MovedPos < Len(MovedCalls)
  /\ MovedCalls[MovedPos + 1] = <<"delete", k>>
  /\ pre' = Snapshot
  /\ \E m \in {delitem(Mach, k)} :
        Commit(m) /\ ret' = Result("delete", k, 0, m.err)
  /\ yielded' = <<>>
  /\ UNCHANGED <<iterating, pending>>

MovedKeys == {MovedCalls[i][2] : i \in 1..Len(MovedCalls)}

NextMoved ==
  \/ \E k \in MovedKeys : PutMoved(k)
  \/ \E k \in MovedKeys : DeleteMoved(k)

SpecMoved == InitMoved /\ [][NextMoved]_vars

\* ------------------------------------------- the arguments of __init__
min_num_keys == 3
max_num_keys == 1024
min_key_size == 1
max_key_size == 1024
min_data_size == 1

\* the values tried for each argument: both limits and their neighbours
NumKeysTried == {2, 3, 4, 1023, 1024, 1025}
KeySizeTried == {0, 1, 2, 1024, 1025}
DataSizeTried == {0, 1, 4096, 4097}

\* the upper limit of num_keys taken as excluded
check_values_open(num_keys, key_size, data_size) ==
  IF num_keys >= max_num_keys \/ num_keys < min_num_keys THEN "ValueError"
  ELSE IF key_size > max_key_size \/ key_size < min_key_size THEN "ValueError"
  ELSE IF data_size > max_data_size \/ data_size < min_data_size THEN "ValueError"
  ELSE ""

\* "Check parameter values" of __init__, on int arguments: the exception
\* raised, "" when none is
check_values(num_keys, key_size, data_size) ==
  IF num_keys > max_num_keys \/ num_keys < min_num_keys THEN "ValueError"
  ELSE IF key_size > max_key_size \/ key_size < min_key_size THEN "ValueError"
  ELSE IF data_size > max_data_size \/ data_size < min_data_size THEN "ValueError"
  ELSE ""

\* no instance and no file on the path
no_file ==
  [hdr |-> None, dhdr |-> None, file |-> <<>>, cache |-> <<>>, heap |-> <<>>,
   iter_node |-> None, iter_pos |-> 0, iter_dir |-> "direct",
   min_occup |-> 0, err |-> ""]

\* b3dict(file_name, num_keys, key_size, data_size) on a path with no file:
\* the checks come before the file is opened for writing
init_(num_keys, key_size, data_size) ==
  With(check_values(num_keys, key_size, data_size), LAMBDA e :
    IF e # "" THEN Raise(no_file, e) ELSE create(num_keys, data_size))

InitArgs ==
  /\ hdr = no_file.hdr
  /\ dhdr = no_file.dhdr
  /\ file = no_file.file
  /\ cache = no_file.cache
  /\ heap = no_file.heap
  /\ iter_node = no_file.iter_node
  /\ iter_pos = no_file.iter_pos
  /\ iter_dir = no_file.iter_dir
  /\ self_min_occup = no_file.min_occup
  /\ ret = Result("none", 0, 0, "")
  /\ yielded = <<>>
  /\ iterating = FALSE
  /\ pending = <<>>
  /\ pre = [hdr |-> None, dhdr |-> None, file |-> <<>>, iter_dir |-> "direct",
            content |-> <<>>, keys |-> {}]

\* the constructor call; its three arguments are kept in ret.key
New(num_keys, key_size, data_size) ==
  /\ dhdr = None
  /\ ret.op = "none"
  /\ \E m \in {init_(num_keys, key_size, data_size)} :
        Commit(m) /\ ret' = Result("new", <<num_keys, key_size, data_size>>, 0, m.err)
  /\ yielded' = <<>>
  /\ UNCHANGED <<iterating, pre, pending>>

NextArgs ==
  \E nk \in NumKeysTried : \E ks \in KeySizeTried : \E ds \in DataSizeTried :
     New(nk, ks, ds)

SpecArgs == InitArgs /\ [][NextArgs]_vars

\* the public calls that open the file
FileOps == {"get", "put", "delete", "iter", "next", "check"}

\* whether the call closed the handle it opened by the time it returned or
\* raised err: get and delete call fd.close() before they raise KeyError,
\* put raises ValueError before it opens the file, __next__ has no
\* fd.close() on any path, and no call closes on an exception raised
\* between its open and its close
fd_closed(op, err) ==
  CASE op = "next" -> FALSE
    [] op \in {"get", "delete"} -> err \in {"", "KeyError"}
    [] op = "put" -> err \in {"", "ValueError"}
    [] op \in {"iter", "check"} -> err = ""

\* the eviction branch of __load_node__ is out of reach
CacheNotFull == Cardinality(DOMAIN cache) < cache_size

\* ----------------------------------------------------------------- claims
\* C1: put(k, v) with a value within the size limit completes without
\* raising; afterwards get(k) returns v and every other key maps to what it
\* mapped to before, absent keys staying absent.
C1_PutRoundTrip ==
  \A k \in Keys :
    (ret.op = "put" /\ ret.key = k /\ ret.value <= pre.hdr.data_size)
    => /\ ret.err = ""
       /\ Content = [pre.content EXCEPT ![k] = ret.value]

\* a put that completed in a tree of two levels, its key readable
C1_Witness ==
  /\ ret.op = "put" /\ ret.err = "" /\ ret.value <= pre.hdr.data_size
  /\ hdr.levels > 1 /\ hdr.keys >= 4
  /\ lookup(Mach, ret.key) = ret.value

\* C2: delete(k) of a present key completes without raising any error;
\* afterwards k is absent (contains(k) is false, get(k) raises KeyError) and
\* every other key is present with its value unchanged.
C2_DeletePresent ==
  \A k \in Keys :
    (ret.op = "delete" /\ ret.key = k /\ pre.content[k] > 0)
    => /\ ret.err = ""
       /\ ~contains(Mach, k).value
       /\ Content = [pre.content EXCEPT ![k] = 0]

\* C3: iter() followed by next() until exhaustion yields exactly the stored
\* keys, each once, in ascending order, on the first and on every later
\* iteration of an instance and for every tree height, a single leaf root
\* included.
C3_IterAscending ==
  (ret.op = "next" /\ pre.iter_dir = "direct")
  => /\ ret.err \in {"", "StopIteration"}
     /\ ret.err = "StopIteration" => yielded = SortedSeq(StoredKeys)

\* C4: after every completed put or delete every node's key vector is
\* strictly ascending with one data entry per key, and every key of the
\* subtree under child i of an internal node N is below N.key[i] (when there
\* is one) and above N.key[i-1] (when i > 0).
C4_KeyOrder ==
  Alive =>
    \A o \in Nodes :
      /\ Readable(o)
      /\ Ascending(View(o).key)
      /\ Len(View(o).data) = Len(View(o).key)
      /\ \A j \in 1..Len(View(o).lower_node) :
           \A k \in KeysUnder(View(o).lower_node[j]) :
             /\ j <= Len(View(o).key) => k < View(o).key[j]
             /\ (j > 1 /\ j - 1 <= Len(View(o).key)) => k > View(o).key[j - 1]

\* a delete that completed by a rotation under an internal root
C4_Witness ==
  /\ ret.op = "delete" /\ ret.err = ""
  /\ hdr.levels = 2 /\ hdr.threads_left + hdr.threads_right > 0
  /\ Len(View(hdr.root_offset).key) > 0

\* C5: after every completed put or delete every non-root node reachable
\* from the root holds min_occup <= len(key) < num_keys keys, with
\* min_occup = floor(num_keys / 3); the root holds fewer than num_keys keys
\* and at most one child when it holds no key.
C5_Occupancy ==
  Alive =>
    \A o \in Nodes :
      /\ Readable(o)
      /\ Len(View(o).key) < hdr.num_keys
      /\ o # hdr.root_offset => trunc_div(hdr.num_keys, 3) <= Len(View(o).key)
      /\ (o = hdr.root_offset /\ Len(View(o).key) = 0)
         => Len(View(o).lower_node) <= 1

\* a put that completed by splitting the root
C5_Witness ==
  /\ ret.op = "put" /\ ret.err = "" /\ hdr.splits > pre.hdr.splits
  /\ Cardinality(Nodes) = 3

C7_LenCountsKeys ==
  Alive => /\ len_(Mach) = KeyCount({o \in Nodes : Readable(o)})
           /\ len_(Mach) = Cardinality(TreeKeys)
           /\ TreeKeys = StoredKeys

\* a delete that completed and left keys in a tree of two levels
C7_Witness ==
  /\ ret.op = "delete" /\ ret.err = "" /\ hdr.levels = 2
  /\ len_(Mach) = 3 /\ pre.hdr.keys = 4

C9_AbsentKey ==
  \A k \in Keys :
    (ret.key = k /\ k \notin pre.keys)
    => /\ ret.op = "delete"
          => /\ ret.err = "KeyError"
             /\ hdr.keys = pre.hdr.keys
             /\ dhdr = pre.dhdr
             /\ file = pre.file
       /\ ret.op = "get" => ret.err = "KeyError"

\* delete of an absent key was called on a tree of two levels
C9_Witness ==
  /\ ret.op = "delete" /\ ret.err = "KeyError" /\ ret.key \notin pre.keys
  /\ hdr.levels = 2 /\ hdr.keys >= 3

\* C10: put(k, v) raises ValueError whenever the encoded length of v exceeds
\* the data_size of the header, leaving tree, header and stats unchanged; a
\* value of exactly data_size is accepted.
C10_ValueTooLarge ==
  ret.op = "put"
  => /\ ret.value > pre.hdr.data_size
        => /\ ret.err = "ValueError"
           /\ hdr = pre.hdr
           /\ dhdr = pre.dhdr
           /\ file = pre.file
     /\ ret.value = pre.hdr.data_size => ret.err # "ValueError"

\* C11: put(k, v) on a key that is present changes only the data entry at
\* k's position in the node holding k: the header with stats.keys,
\* stats.nodes, stats.splits, stats.merges and both thread counters is as it
\* was (no rebalancing ran), every other node record is as it was, and a put
\* of the value already stored leaves the file unchanged.
C11_UpdateInPlace ==
  \A k \in Keys :
    (ret.op = "put" /\ ret.key = k /\ k \in pre.keys /\ ret.err = "")
    => /\ hdr = pre.hdr
       /\ dhdr = pre.dhdr
       /\ len_(Mach) = pre.hdr.keys
       /\ Len(file) = Len(pre.file)
       /\ \E o \in 1..Len(file) :
            /\ \A x \in 1..Len(file) : x # o => file[x] = pre.file[x]
            /\ pre.file[o] # Hole
            /\ \E i \in 1..Len(pre.file[o].key) :
                 /\ pre.file[o].key[i] = k
                 /\ file[o] = [pre.file[o] EXCEPT !.data[i] = ret.value]
       /\ pre.content[k] = ret.value => file = pre.file

\* a put replaced the value of a key held in a leaf under an internal root
C11_Witness ==
  /\ ret.op = "put" /\ ret.err = "" /\ ret.key \in pre.keys
  /\ pre.content[ret.key] # ret.value
  /\ hdr.levels = 2
  /\ lookup(Mach, ret.key) = ret.value

\* C12: reversed(store) consumed to exhaustion yields exactly the stored
\* keys, each once, in descending order, for every tree height, a single
\* leaf root holding two or more keys included.
C12_IterDescending ==
  (ret.op = "next" /\ pre.iter_dir = "reverse")
  => /\ ret.err \in {"", "StopIteration"}
     /\ ret.err = "StopIteration"
        => LET asc == SortedSeq(StoredKeys)
           IN yielded = [i \in 1..Len(asc) |-> asc[Len(asc) + 1 - i]]

C16_Levels ==
  Alive =>
    /\ LeafDepths(hdr.root_offset, 1) = {hdr.levels}
    /\ ret.op = "put"
       => /\ hdr.levels \in {pre.hdr.levels, pre.hdr.levels + 1}
          /\ hdr.levels = pre.hdr.levels + 1
             <=> hdr.root_offset # pre.hdr.root_offset
    /\ ret.op = "delete"
       => /\ hdr.levels \in {pre.hdr.levels, pre.hdr.levels - 1}
          /\ hdr.levels = pre.hdr.levels - 1
             <=> hdr.root_offset # pre.hdr.root_offset
    /\ ret.op \notin {"put", "delete", "create"} => hdr.levels = pre.hdr.levels

\* a delete took a tree of three levels down to two by collapsing the root
C16_Witness ==
  /\ ret.op = "delete" /\ ret.err = ""
  /\ pre.hdr.levels = 3 /\ hdr.levels = 2
  /\ hdr.merges >= pre.hdr.merges + 2
  /\ LeafDepths(hdr.root_offset, 1) = {2}

\* C17: check_consistency() returns false whenever the tree stored in the
\* file, well-formed or not, violates an audited property anywhere: node
\* overflow, underflow of a non-root node, a wrong left_node or right_node,
\* an internal node without len(key) + 1 children, a key out of place
\* between its subtrees, a child with a wrong upper_node, or a leaf whose
\* keys are not strictly ascending.
C17_AuditComplete ==
  (ret.op = "check" /\ ret.err = "" /\ AuditedViolation) => ret.value = 0

\* C18: opening an existing file fails with Corrupt when the stored tree
\* violates an audited property, underflow being judged with min_occup =
\* floor(num_keys / 3) of the num_keys stored in the header, whatever
\* num_keys argument (or default) is passed.
C18_CorruptAtOpen ==
  (ret.op = "open" /\ AuditedViolation) => ret.err = "Corrupt"

\* C19: whenever freeing a node makes the free list longer than
\* max_free_nodes, the same put or delete removes one entry from the list
\* and truncates the file by one slot: no put or delete leaves more than
\* max_free_nodes entries in free_offset.
C19_FreeListBounded ==
  ret.op \in {"put", "delete"} => Len(hdr.free_offset) <= max_free_nodes

\* C20: after every completed put or delete the file ends with the slot at
\* last_offset (its length is last_offset + S_node and every slot up to
\* there holds a record), and root_offset, every entry of free_offset and
\* every non-zero upper_node, left_node, right_node and lower_node entry of
\* a reachable node is a slot not beyond last_offset.
C20_FileAndOffsets ==
  (ret.op \in {"put", "delete"} /\ ret.err = "") =>
    /\ Len(file) = hdr.last_offset
    /\ \A i \in 1..Len(file) : file[i] # Hole
    /\ hdr.root_offset \in 1..hdr.last_offset
    /\ \A i \in 1..Len(hdr.free_offset) :
         hdr.free_offset[i] \in 1..hdr.last_offset
    /\ \A o \in Nodes :
         /\ Readable(o)
         /\ View(o).upper_node \in 0..hdr.last_offset
         /\ View(o).left_node \in 0..hdr.last_offset
         /\ View(o).right_node \in 0..hdr.last_offset
         /\ \A i \in 1..Len(View(o).lower_node) :
              View(o).lower_node[i] \in 1..hdr.last_offset

\* C21: deleting the stored keys one by one, in any order, completes
\* without error at every step; the delete of the last stored key leaves a
\* single leaf root with no key and no data, len() = 0, stats.keys = 0 and
\* stats.levels = 1, and a put into the emptied store succeeds and is
\* readable.
C21_DeleteAll ==
  /\ (ret.op = "delete" /\ ret.key \in pre.keys) =>
        /\ ret.err = ""
        /\ pre.keys = {ret.key} =>
              /\ Readable(hdr.root_offset)
              /\ View(hdr.root_offset).key = <<>>
              /\ View(hdr.root_offset).data = <<>>
              /\ View(hdr.root_offset).lower_node = <<>>
              /\ len_(Mach) = 0
              /\ hdr.keys = 0
              /\ hdr.levels = 1
  /\ (ret.op = "put" /\ ret.value = DataSizeArg /\ pre.keys = {}) =>
        /\ ret.err = ""
        /\ lookup(Mach, ret.key) = ret.value

\* a put of a new key into a store that is a single leaf root and has never
\* split, rotated or merged
FreshPut ==
  /\ ret.op = "put" /\ ret.err = ""
  /\ ret.key \notin pre.keys
  /\ pre.hdr.levels = 1 /\ pre.hdr.nodes = 1
  /\ pre.hdr.splits = 0 /\ pre.hdr.merges = 0
  /\ pre.hdr.threads_left = 0 /\ pre.hdr.threads_right = 0

\* C22 (as amended): in a newly created store of branching factor B =
\* num_keys, each of the first B - 1 puts of distinct keys leaves a single
\* root holding all the keys (stats.levels = 1, stats.nodes = 1,
\* stats.splits = 0); put number B splits it, after which stats.splits = 1,
\* stats.levels = 2 and stats.nodes = 3.
C22_FirstSplit ==
  FreshPut =>
    /\ hdr.keys = pre.hdr.keys + 1
    /\ TreeKeys = pre.keys \cup {ret.key}
    /\ IF pre.hdr.keys + 1 < hdr.num_keys
       THEN /\ hdr.levels = 1 /\ hdr.nodes = 1 /\ hdr.splits = 0
            /\ Range(View(hdr.root_offset).key) = TreeKeys
            /\ View(hdr.root_offset).lower_node = <<>>
       ELSE /\ pre.hdr.keys + 1 = hdr.num_keys
            /\ hdr.splits = 1 /\ hdr.levels = 2 /\ hdr.nodes = 3

\* put number B has split the root
C22_Witness ==
  /\ FreshPut
  /\ pre.hdr.keys + 1 = hdr.num_keys
  /\ hdr.splits = 1 /\ hdr.levels = 2 /\ hdr.nodes = 3

\* C22 (as stated): after B puts of distinct keys the store is a single
\* root holding all B keys, with stats.keys = B, stats.levels = 1,
\* stats.nodes = 1 and stats.splits = 0.
C22_FullRoot ==
  (FreshPut /\ hdr.keys = hdr.num_keys) =>
    /\ hdr.levels = 1 /\ hdr.nodes = 1 /\ hdr.splits = 0
    /\ Len(View(hdr.root_offset).key) = hdr.num_keys

\* C23: when an iteration, direct or reverse, is abandoned after it has
\* yielded k of the n stored keys (0 <= k < n), the next iter() on the same
\* instance, consumed to exhaustion, yields all n keys in ascending order
\* from the smallest, whatever the height of the tree.
C23_RestartFromStart ==
  (ret.op = "abandon" /\ Len(yielded) < Cardinality(StoredKeys))
  => iter_all(Mach) = SortedSeq(StoredKeys)

\* C24: every load of the node at offset o returns the record most recently
\* written to offset o by this instance, by save_node or by the append of
\* alloc_node: for every node of the tree, the record the next load of
\* its offset returns (the cached copy when the offset is cached) is the
\* record in its slot of the file, also after compaction truncated a slot
\* or relocated a node.
C24_LoadReturnsLastWrite ==
  \A o \in DOMAIN cache \cap Nodes :
     (o >= 1 /\ o <= Len(file) /\ file[o] # Hole) => View(o) = file[o]

\* C25: every public operation that opens the file (get, put, delete,
\* iter, next, check_consistency) has closed its handle when it returns or
\* raises, so that no handle of the store is open between two operations.
C25_HandleClosed == ret.op \in FileOps => fd_closed(ret.op, ret.err)

\* C26: creating a store with num_keys outside 3..1024, or key_size outside
\* 1..1024, or data_size outside 1..4096 fails with ValueError and creates
\* no file; every other combination, num_keys 3 and num_keys 1024
\* included, is accepted and leaves the file of an empty store.
C26_ArgsChecked ==
  ret.op = "new" =>
    IF /\ ret.key[1] \in 3..1024
       /\ ret.key[2] \in 1..1024
       /\ ret.key[3] \in 1..4096
    THEN /\ ret.err = ""
         /\ dhdr = new_header(ret.key[1], ret.key[3])
         /\ hdr = dhdr
         /\ file = <<empty_node(1)>>
         /\ check_consistency(Mach).value
    ELSE /\ ret.err = "ValueError"
         /\ dhdr = None
         /\ file = <<>>

\* num_keys 1025 with the other arguments in range was refused and left no
\* file
C26_Witness ==
  /\ ret.op = "new" /\ ret.key = <<1025, 1024, 4096>>
  /\ ret.err = "ValueError" /\ dhdr = None /\ file = <<>>

\* C27: whenever deletions have collapsed the tree back to a single empty
\* root, every key deleted, the file holds exactly one node slot (its size
\* is the header record plus one node record).
C27_OneSlotWhenEmpty ==
  (/\ ret.op = "delete" /\ ret.err = ""
   /\ hdr.merges > 0
   /\ hdr.keys = 0 /\ hdr.levels = 1
   /\ Readable(hdr.root_offset)
   /\ View(hdr.root_offset).key = <<>>
   /\ View(hdr.root_offset).lower_node = <<>>)
  => Len(file) = 1

\* a put or delete whose compaction vacated the last slot of the file, a
\* slot that held a node with keys when the call began
VacatedLast ==
  /\ ret.op \in {"put", "delete"}
  /\ hdr.last_offset < pre.hdr.last_offset
  /\ pre.hdr.last_offset <= Len(pre.file)
  /\ pre.file[pre.hdr.last_offset] # Hole
  /\ pre.file[pre.hdr.last_offset].key # <<>>

\* C28: when compaction relocates the node in the last slot into a free
\* slot, also when that node is the root or a node the merge in progress is
\* working on, the call completes without error; afterwards no record lies
\* at or beyond the vacated offset, root_offset, the free list and the
\* links of the nodes of the tree do not name it, every structural
\* invariant of the tree holds, and the file read by a new instance
\* passes the audit.
C28_Relocation ==
  VacatedLast =>
    /\ ret.err = ""
    /\ Len(file) < pre.hdr.last_offset
    /\ hdr.root_offset # pre.hdr.last_offset
    /\ \A i \in 1..Len(hdr.free_offset) : hdr.free_offset[i] # pre.hdr.last_offset
    /\ \A o \in Nodes :
         /\ Readable(o)
         /\ o # pre.hdr.last_offset
         /\ View(o).upper_node # pre.hdr.last_offset
         /\ View(o).left_node # pre.hdr.last_offset
         /\ View(o).right_node # pre.hdr.last_offset
    /\ ~AuditedViolation
    /\ open_existing(Mach, hdr.num_keys).err = ""

\* the leaf of the tree before the call in which the search for key k ends
RECURSIVE pre_leaf(_, _, _)
pre_leaf(o, k, depth) ==
  IF depth = 0 \/ pre.file[o].lower_node = <<>> THEN o
  ELSE pre_leaf(pre.file[o].lower_node[
                  Cardinality({i \in 1..Len(pre.file[o].key) :
                                 pre.file[o].key[i] < k}) + 1],
                k, depth - 1)

\* the number of keys the sibling at offset o held before the call, num_keys
\* when there is no sibling
pre_occup(o) == IF o = 0 THEN pre.hdr.num_keys ELSE Len(pre.file[o].key)

\* a put of a new key that completed and whose leaf, not the root, held
\* num_keys - 1 keys before it
FillingPut ==
  /\ ret.op = "put" /\ ret.err = ""
  /\ ret.key \notin pre.keys
  /\ pre.hdr.levels > 1
  /\ Len(pre.file[pre_leaf(pre.hdr.root_offset, ret.key, pre.hdr.levels)].key)
       = pre.hdr.num_keys - 1

\* C29: when a put leaves a node N with num_keys keys and a same-parent
\* sibling of N holds fewer than num_keys - 1 keys, a key is rotated from N
\* to the emptier such sibling, the left one when both are equally empty
\* (N is left with num_keys - 1 keys and the counter of that direction
\* grows), and no split is performed; when no sibling holds fewer than
\* num_keys - 1 keys the node is split.
C29_RotateBeforeSplit ==
  FillingPut =>
    LET n == pre.file[pre_leaf(pre.hdr.root_offset, ret.key, pre.hdr.levels)]
        l == pre_occup(n.left_node)
        r == pre_occup(n.right_node)
    IN IF l < pre.hdr.num_keys - 1 \/ r < pre.hdr.num_keys - 1
       THEN /\ hdr.splits = pre.hdr.splits
            /\ Len(View(n.offset).key) = pre.hdr.num_keys - 1
            /\ IF l <= r
               THEN hdr.threads_left > pre.hdr.threads_left
               ELSE hdr.threads_right > pre.hdr.threads_right
       ELSE hdr.splits > pre.hdr.splits

\* the number of keys the sibling at offset o held before the call, 0 when
\* there is no sibling
pre_giver_occup(o) == IF o = 0 THEN 0 ELSE Len(pre.file[o].key)

\* a delete of a key held in a leaf that is not the root and is left with
\* fewer than min_occup keys
DrainingDelete ==
  /\ ret.op = "delete"
  /\ ret.key \in pre.keys
  /\ pre.hdr.levels > 1
  /\ ret.key \in Range(pre.file[pre_leaf(pre.hdr.root_offset, ret.key,
                                         pre.hdr.levels)].key)
  /\ Len(pre.file[pre_leaf(pre.hdr.root_offset, ret.key, pre.hdr.levels)].key) - 1
       < self_min_occup

ViewOf(m) ==
  [o \in 1..Len(m.file) |->
     IF o \in DOMAIN m.cache THEN Dump(m, m.cache[o]) ELSE m.file[o]]

\* the (key, data) pairs of the subtree under offset o of the records f, in
\* order: child, pair, child, ..., child; depth counts down from the number
\* of levels
RECURSIVE in_order(_, _, _)
RECURSIVE in_order_from(_, _, _, _)
in_order(f, o, depth) ==
  IF o \notin DOMAIN f \/ f[o] = Hole THEN <<>>
  ELSE IF depth <= 1 \/ f[o].lower_node = <<>>
  THEN [i \in 1..Len(f[o].key) |->
          <<f[o].key[i], IF i <= Len(f[o].data) THEN f[o].data[i] ELSE 0>>]
  ELSE in_order_from(f, o, 1, depth)

in_order_from(f, o, i, depth) ==
  IF i > Len(f[o].lower_node) THEN <<>>
  ELSE in_order(f, f[o].lower_node[i], depth - 1)
       \o (IF i <= Len(f[o].key)
           THEN <<<<f[o].key[i], IF i <= Len(f[o].data) THEN f[o].data[i] ELSE 0>>>>
           ELSE <<>>)
       \o in_order_from(f, o, i + 1, depth)

\* lines 1035-1053 of __setitem__: the machine and the node when the pair
\* is stored and saved, before any balancing
stored(m, key, value) ==
  With(rec_search(m, m.hdr.root_offset, key), LAMBDA r :
    IF ~Ok(r.m) THEN [m |-> r.m, node |-> None]
    ELSE [m |-> save_node(IF r.exists
                          THEN [r.m EXCEPT !.heap[r.node.data] =
                                              PySet(@, r.position + 1, value)]
                          ELSE insert_pair(r.m, r.node, r.position, key, value),
                          r.node),
          node |-> r.node])

\* lines 1063-1116 of __delitem__ for a key held in a leaf: the machine and
\* the node when the pair is removed and saved, before any balancing
removed(m, key) ==
  With(rec_search(m, m.hdr.root_offset, key), LAMBDA r :
    IF ~Ok(r.m) \/ ~r.exists THEN [m |-> Raise(r.m, "KeyError"), node |-> None]
    ELSE IF Len(L(r.m, r.node)) > 0 THEN [m |-> Raise(r.m, "KeyError"), node |-> None]
    ELSE With(save_header([r.m EXCEPT !.hdr.keys = @ - 1]), LAMBDA m1 :
           [m |-> save_node([m1 EXCEPT !.heap[r.node.key] = PyRemove(@, r.position + 1),
                                      !.heap[r.node.data] = PyRemove(@, r.position + 1)],
                            r.node),
            node |-> r.node]))

\* giver g lost one key, taker t gained one, their parent p kept its number
\* of keys and changed only the separator between g and t, and no other
\* record changed its keys
moved_one(f0, f1, g, t, p) ==
  /\ {g, t, p} \subseteq DOMAIN f0
  /\ DOMAIN f1 = DOMAIN f0
  /\ Len(f1[g].key) = Len(f0[g].key) - 1
  /\ Len(f1[t].key) = Len(f0[t].key) + 1
  /\ Len(f1[p].key) = Len(f0[p].key)
  /\ f1[p].lower_node = f0[p].lower_node
  /\ \E i \in 1..Len(f0[p].key) :
        /\ {f0[p].lower_node[i], f0[p].lower_node[i + 1]} = {g, t}
        /\ f1[p].key[i] # f0[p].key[i]
        /\ \A j \in 1..Len(f0[p].key) : j # i => f1[p].key[j] = f0[p].key[j]
  /\ \A o \in DOMAIN f0 \ {g, t, p} :
        f0[o] # Hole => f1[o] # Hole /\ f1[o].key = f0[o].key

\* what one call thread_ballance(m0, o) that returned true did, m1 being
\* the machine it left
rotation_moves_one(m0, o, m1) ==
  LET f0 == ViewOf(m0)
      f1 == ViewOf(m1)
      n == f0[o]
      c == (m1.hdr.threads_left - m0.hdr.threads_left)
           + (m1.hdr.threads_right - m0.hdr.threads_right)
  IN /\ Ok(m1)
     /\ c >= 1
     /\ m1.hdr.threads_left >= m0.hdr.threads_left
     /\ m1.hdr.threads_right >= m0.hdr.threads_right
     /\ Len(f1[n.upper_node].key) = Len(f0[n.upper_node].key)
     /\ in_order(f1, m1.hdr.root_offset, m1.hdr.levels)
          = in_order(f0, m0.hdr.root_offset, m0.hdr.levels)
     /\ c = 1 =>
          \E s \in {n.left_node, n.right_node} \ {0} :
             \/ moved_one(f0, f1, o, s, n.upper_node)
             \/ moved_one(f0, f1, s, o, n.upper_node)

\* thread_ballance applied where __setitem__ applies it, to the leaf that
\* reached num_keys keys by the put of k
rotation_of_put(k) ==
  With(stored(Mach, k, DataSizeArg), LAMBDA s :
    (Ok(s.m) /\ Len(K(s.m, s.node)) = s.m.hdr.num_keys) =>
       With(thread_ballance(s.m, s.node.offset), LAMBDA t :
         t.ret => rotation_moves_one(s.m, s.node.offset, t.m)))

\* thread_ballance applied where __delitem__ applies it, to the leaf left
\* with fewer than min_occup keys by the delete of k
rotation_of_delete(k) ==
  With(removed(Mach, k), LAMBDA s :
    (Ok(s.m) /\ Len(K(s.m, s.node)) < min_occup(s.m)) =>
       With(thread_ballance(s.m, s.node.offset), LAMBDA t :
         t.ret => rotation_moves_one(s.m, s.node.offset, t.m)))

\* thread_ballance applied to the node at offset o of the tree at rest
rotation_at(o) ==
  With(thread_ballance(Mach, o), LAMBDA t :
    t.ret => rotation_moves_one(Mach, o, t.m))

\* C31: each successful rotation between a giver and a taker under parent P
\* moves exactly one key: the giver loses one key, the taker gains one,
\* len(P.key) is unchanged, the separator replaced in P is the one between
\* giver and taker, the in-order sequence of (key, data) pairs of the whole
\* tree is unchanged, and exactly one of the two thread counters grows by
\* one.
C31_RotationMovesOne ==
  Alive =>
    /\ \A k \in MovedKeys : rotation_of_put(k) /\ rotation_of_delete(k)
    /\ \A o \in {x \in Nodes : Readable(x)} : rotation_at(o)

\* a put filled a leaf next to a left sibling with room: one key went to
\* that sibling through the parent, one counter grew by one, nothing was
\* split and the pairs of the tree are those of before with the new one
C31_Witness ==
  /\ FillingPut
  /\ hdr.splits = pre.hdr.splits
  /\ hdr.threads_left = pre.hdr.threads_left + 1
  /\ hdr.threads_right = pre.hdr.threads_right
  /\ LET n == pre.file[pre_leaf(pre.hdr.root_offset, ret.key, pre.hdr.levels)]
     IN /\ n.left_node # 0
        /\ Len(View(n.left_node).key) = Len(pre.file[n.left_node].key) + 1
        /\ Len(View(n.offset).key) = Len(n.key)
        /\ Len(View(n.upper_node).key) = Len(pre.file[n.upper_node].key)
  /\ Range(in_order(ViewOf(Mach), hdr.root_offset, hdr.levels))
       = Range(in_order(pre.file, pre.hdr.root_offset, pre.hdr.levels))
           \cup {<<ret.key, ret.value>>}

\* what one split of the node at offset o of machine m0 did, s being the
\* result of split_once: the keys below the pivot stayed, those above it
\* went with their data and child pointers to the new right sibling, the
\* pivot went into the parent with the new node to its right
split_is_clean(m0, o, s) ==
  LET f0 == ViewOf(m0)
      f1 == ViewOf(s.m)
      n == f0[o]
      nk == m0.hdr.num_keys
      p == nk \div 2
      r == s.right.offset
      up == s.upper.offset
  IN /\ Ok(s.m)
     /\ Len(n.key) = nk
     /\ r # o /\ r \in DOMAIN f1
     /\ r \in Range(m0.hdr.free_offset) \/ r > Len(m0.file)
     /\ f1[o].key = SubSeq(n.key, 1, p)
     /\ f1[o].data = SubSeq(n.data, 1, p)
     /\ f1[r].key = SubSeq(n.key, p + 2, nk)
     /\ f1[r].data = SubSeq(n.data, p + 2, nk)
     /\ Len(f1[r].key) = nk - p - 1
     /\ IF n.lower_node = <<>>
        THEN f1[o].lower_node = <<>> /\ f1[r].lower_node = <<>>
        ELSE /\ f1[o].lower_node = SubSeq(n.lower_node, 1, p + 1)
             /\ f1[r].lower_node = SubSeq(n.lower_node, p + 2, nk + 1)
             /\ \A c \in Range(f1[r].lower_node) : f1[c].upper_node = r
             /\ \A c \in Range(f1[o].lower_node) : f1[c].upper_node = o
     /\ f1[o].upper_node = up /\ f1[r].upper_node = up
     /\ up \in DOMAIN f1
     /\ \E i \in 1..Len(f1[up].key) :
           /\ f1[up].key[i] = n.key[p + 1]
           /\ f1[up].data[i] = n.data[p + 1]
           /\ f1[up].lower_node[i] = o
           /\ f1[up].lower_node[i + 1] = r
     /\ Len(f1[up].key) = IF n.upper_node = 0 THEN 1
                          ELSE Len(f0[n.upper_node].key) + 1
     /\ m0.min_occup <= Len(f1[o].key) /\ Len(f1[o].key) < nk
     /\ m0.min_occup <= Len(f1[r].key) /\ Len(f1[r].key) < nk
     /\ in_order(f1, s.m.hdr.root_offset, s.m.hdr.levels)
          = in_order(f0, m0.hdr.root_offset, m0.hdr.levels)

\* the splits __split_node__ makes from the node at offset o upwards (lines
\* 588-591: the parent that reached num_keys keys is threaded, else split)
\* are all clean; depth counts down from the number of levels
RECURSIVE splits_are_clean(_, _, _)
splits_are_clean(m0, o, depth) ==
  With(split_once(m0, o), LAMBDA s :
    /\ split_is_clean(m0, o, s)
    /\ (depth > 0 /\ Len(K(s.m, s.upper)) = s.m.hdr.num_keys) =>
          With(thread_ballance(s.m, s.upper.offset), LAMBDA t :
            (Ok(t.m) /\ ~t.ret) => splits_are_clean(t.m, s.upper.offset, depth - 1)))

\* the halves of the node at offset o, split in machine m0, as the whole of
\* __split_node__ leaves them, and the pairs of the tree
split_ends_clean(m0, o) ==
  With(split_once(m0, o), LAMBDA s :
  With(split_node(m0, o), LAMBDA m1 :
    /\ Ok(m1)
    /\ ViewOf(m1)[o].key = ViewOf(s.m)[o].key
    /\ ViewOf(m1)[s.right.offset].key = ViewOf(s.m)[s.right.offset].key
    /\ in_order(ViewOf(m1), m1.hdr.root_offset, m1.hdr.levels)
         = in_order(ViewOf(m0), m0.hdr.root_offset, m0.hdr.levels)))

\* __split_node__ applied where __setitem__ applies it: to the leaf that
\* reached num_keys keys by the put of k and could not thread
split_of_put(k) ==
  With(stored(Mach, k, DataSizeArg), LAMBDA s :
    (Ok(s.m) /\ Len(K(s.m, s.node)) = s.m.hdr.num_keys) =>
       With(thread_ballance(s.m, s.node.offset), LAMBDA t :
         (Ok(t.m) /\ ~t.ret) =>
            /\ splits_are_clean(t.m, s.node.offset, t.m.hdr.levels)
            /\ split_ends_clean(t.m, s.node.offset)))

\* C32: splitting a node that holds num_keys keys at pivot
\* p = floor(num_keys / 2) leaves the p keys below the pivot in the original
\* node, moves the num_keys - p - 1 keys above the pivot, with their data
\* and child pointers, to a newly allocated right sibling, and inserts the
\* pivot key and data into the parent with the new node as the child
\* immediately to its right; both halves end with
\* min_occup <= len(key) < num_keys and the in-order sequence of the tree
\* is unchanged.
C32_SplitAtPivot ==
  Alive => \A k \in CompactKeys : split_of_put(k)

\* a put filled a leaf that could not thread: the leaf kept the
\* floor(num_keys / 2) smallest of its keys and has a right sibling in a slot
\* that held no node before, with the keys above the pivot, under the same
\* parent; the pairs of the tree are those of before with the new one
C32_Witness ==
  /\ ret.op = "put" /\ ret.err = ""
  /\ ret.key \notin pre.keys
  /\ pre.hdr.levels > 1
  /\ hdr.splits = pre.hdr.splits + 1
  /\ LET n == pre.file[pre_leaf(pre.hdr.root_offset, ret.key, pre.hdr.levels)]
         r == View(n.offset).right_node
     IN /\ Len(n.key) = hdr.num_keys - 1
        /\ Len(View(n.offset).key) = hdr.num_keys \div 2
        /\ r # 0
        /\ r > Len(pre.file) \/ r \in Range(pre.hdr.free_offset)
        /\ Len(View(r).key) = hdr.num_keys - (hdr.num_keys \div 2) - 1
        /\ View(r).upper_node = View(n.offset).upper_node
        /\ View(r).left_node = n.offset
  /\ Range(in_order(ViewOf(Mach), hdr.root_offset, hdr.levels))
       = Range(in_order(pre.file, pre.hdr.root_offset, pre.hdr.levels))
           \cup {<<ret.key, ret.value>>}

\* the offsets of the nodes of the subtree under o of the records f, o
\* included; depth counts down from the number of levels
RECURSIVE nodes_under(_, _, _)
nodes_under(f, o, depth) ==
  IF o \notin DOMAIN f \/ f[o] = Hole THEN {}
  ELSE IF depth <= 1 THEN {o}
  ELSE {o} \cup UNION {nodes_under(f, f[o].lower_node[i], depth - 1) :
                         i \in 1..Len(f[o].lower_node)}

\* C33: stats.merges grows only when a merge or a root collapse removes a
\* node: in every put or delete, each step of stats.merges is accompanied
\* by exactly one node released to the free list (an entry more in
\* free_offset, or a slot less in the file where the release compacted it)
\* and by stats.nodes going down by one, the tree has that many nodes less,
\* and no node of the tree is left with num_keys keys.
C33_MergesCountRemovals ==
  ret.op \in {"put", "delete"} =>
    /\ hdr.merges >= pre.hdr.merges
    /\ ret.op = "put" => hdr.merges = pre.hdr.merges
    /\ hdr.merges > pre.hdr.merges =>
         /\ hdr.nodes = pre.hdr.nodes - (hdr.merges - pre.hdr.merges)
         /\ Len(hdr.free_offset) + (pre.hdr.last_offset - hdr.last_offset)
              = Len(pre.hdr.free_offset) + (hdr.merges - pre.hdr.merges)
         /\ Cardinality(nodes_under(ViewOf(Mach), hdr.root_offset, hdr.levels))
              = Cardinality(nodes_under(pre.file, pre.hdr.root_offset, pre.hdr.levels))
                  - (hdr.merges - pre.hdr.merges)
         /\ \A o \in nodes_under(ViewOf(Mach), hdr.root_offset, hdr.levels) :
               Len(ViewOf(Mach)[o].key) < hdr.num_keys

\* lines 1067-1100 of __delitem__ for a key found in an internal node: the
\* largest pair of the subtree to its left is popped from its leaf and
\* written over the slot, and the node is saved; .max is what __pop_max__
\* returned
replaced(m, key) ==
  With(rec_search(m, m.hdr.root_offset, key), LAMBDA r :
    IF ~Ok(r.m) \/ ~r.exists \/ Len(L(r.m, r.node)) = 0
    THEN [m |-> Raise(r.m, "KeyError"), node |-> None, position |-> 0, max |-> None]
    ELSE
    With(save_header([r.m EXCEPT !.hdr.keys = @ - 1]), LAMBDA m1 :
    With(pop_max(m1, L(m1, r.node)[r.position + 1]), LAMBDA mx :
    With(IF Ok(mx.m)
         THEN [mx.m EXCEPT !.heap[r.node.key] = PySet(@, r.position + 1, mx.key),
                           !.heap[r.node.data] = PySet(@, r.position + 1, mx.data)]
         ELSE mx.m, LAMBDA b1 :
      [m |-> save_node(b1, r.node), node |-> r.node, position |-> r.position,
       max |-> [key |-> mx.key, data |-> mx.data, offset |-> mx.offset]]))))

\* lines 1102-1105: "Ballance popped node which lost its max key"
leaf_balanced(m, offset) ==
  With(load_node(m, offset), LAMBDA popped :
    IF Ok(popped.m) /\ Len(K(popped.m, popped.node)) < min_occup(popped.m)
    THEN thread_or_merge(popped.m, offset)
    ELSE popped.m)

\* lines 1117-1120: "Ballance node", on the dict the search returned
node_balanced(m, node) ==
  IF Ok(m) /\ Len(K(m, node)) < min_occup(m)
  THEN thread_or_merge(m, node.offset)
  ELSE m

\* the delete of k, a key held in an internal node of the tree at rest,
\* step by step
internal_delete(k) ==
  With(replaced(Mach, k), LAMBDA s :
    Ok(s.m) =>
      LET f0 == ViewOf(Mach)
          f1 == ViewOf(s.m)
          o == s.node.offset
          i == s.position + 1
      IN /\ s.max.key \in TreeKeys
         /\ s.max.key < k
         /\ \A x \in TreeKeys : x < k => x <= s.max.key
         /\ s.max.key \in KeysUnder(f0[o].lower_node[i])
         /\ f0[o].key[i] = k
         /\ f1[o].key = [f0[o].key EXCEPT ![i] = s.max.key]
         /\ f1[o].data = [f0[o].data EXCEPT ![i] = s.max.data]
         /\ Len(f1[o].key) = Len(f0[o].key)
         /\ f0[s.max.offset].lower_node = <<>>
         /\ f1[s.max.offset].key
              = SubSeq(f0[s.max.offset].key, 1, Len(f0[s.max.offset].key) - 1)
         /\ f0[s.max.offset].key[Len(f0[s.max.offset].key)] = s.max.key
         /\ f0[s.max.offset].data[Len(f0[s.max.offset].data)] = s.max.data
         /\ delitem(Mach, k)
              = node_balanced(leaf_balanced(s.m, s.max.offset), s.node)
         /\ With(leaf_balanced(s.m, s.max.offset), LAMBDA mb :
              (Ok(mb) /\ Len(K(mb, s.node)) < min_occup(mb)) =>
                 /\ o \notin Range(mb.hdr.free_offset)
                 /\ o <= Len(mb.file)))

\* C34: when delete(k) finds k at position i of an internal node, that slot
\* is overwritten with the largest key, and its data, of the subtree under
\* lower_node[i], the in-order predecessor, which is removed from its leaf;
\* the internal node's key count does not change, rebalancing starts at
\* that leaf, and no rebalancing step of the same delete is applied to an
\* offset that was freed or relocated earlier in that delete.
C34_PredecessorTakesSlot ==
  Alive => \A k \in MovedKeys : internal_delete(k)

\* the number of nodes a put allocated
allocated == hdr.nodes - pre.hdr.nodes

\* C35: after every completed put or delete the slots of the file are
\* partitioned into the nodes reachable from root_offset and the offsets
\* listed in free_offset: no slot is both reachable and free, no slot is
\* neither, free_offset is sorted ascending without duplicates, alloc
\* reuses the smallest free offset before extending the file, and
\* stats.nodes equals the number of reachable nodes.
C35_SlotsPartitioned ==
  (ret.op \in {"put", "delete"} /\ ret.err = "") =>
    /\ Nodes \cap Range(hdr.free_offset) = {}
    /\ Nodes \cup Range(hdr.free_offset) = 1..Len(file)
    /\ Ascending(hdr.free_offset)
    /\ hdr.nodes = Cardinality(Nodes)
    /\ alloc_node(Mach).node.offset
         = IF hdr.free_offset # <<>> THEN hdr.free_offset[1] ELSE Len(file) + 1
    /\ (ret.op = "put" /\ allocated > 0) =>
          IF allocated <= Len(pre.hdr.free_offset)
          THEN /\ Len(file) = Len(pre.file)
               /\ hdr.free_offset
                    = SubSeq(pre.hdr.free_offset, allocated + 1,
                             Len(pre.hdr.free_offset))
          ELSE /\ hdr.free_offset = <<>>
               /\ Len(file) = Len(pre.file) + allocated - Len(pre.hdr.free_offset)

\* ------------------------------------------------- calls, step by step
\* The recorded run of SpecMoved again, every put and delete taken one
\* balancing call at a time.  pending is the work the call in progress has
\* still to do, first item first; its last item is the return of the call.
\*   fn "thread_or_split"  "if not thread_ballance(o): split_node(o)"
\*   fn "split"            split_node(o) after the thread returned false
\*   fn "thread_or_merge"  "if not thread_ballance(o): merge_node(o)"
\*   fn "merge"            merge_node(o) after the thread returned false
\*   fn "rethread"         thread_ballance(taker) of line 749
\*   fn "balance_popped"   lines 1102-1105, "balance_node" lines 1117-1120
\*   fn "return"           fd.close() and the return, or the exception err
\* from is the offset whose balancing asked for the item, parent the
\* upper_node that offset had then, chain the number of rethreads in a row,
\* hops the number of parents climbed since the call asked for a balancing,
\* steps the number of steps of the call so far, whole the instance as
\* setitem or delitem leave it when run in one piece.
Item(fn, offset, from, parent, chain, hops) ==
  [fn |-> fn, offset |-> offset, node |-> None, from |-> from,
   parent |-> parent, chain |-> chain, hops |-> hops, op |-> "", key |-> 0,
   value |-> 0, err |-> "", steps |-> 0, whole |-> None]

NodeItem(node) ==
  [Item("balance_node", node.offset, 0, 0, 0, 0) EXCEPT !.node = node]

ReturnItem(op, key, value, whole) ==
  [Item("return", 0, 0, 0, 0, 0) EXCEPT !.op = op, !.key = key, !.value = value,
                                     !.whole = whole]

\* the instance takes the machine as it is, lists and all
Store(m) ==
  /\ hdr' = m.hdr
  /\ dhdr' = m.dhdr
  /\ file' = m.file
  /\ cache' = m.cache
  /\ heap' = m.heap
  /\ iter_node' = m.iter_node
  /\ iter_pos' = m.iter_pos
  /\ iter_dir' = m.iter_dir
  /\ self_min_occup' = m.min_occup

\* the work left when the first item is done and asks for the items more:
\* an exception drops everything but the return, which carries it
Continue(m, more) ==
  LET last == pending[Len(pending)]
      rest == SubSeq(pending, 2, Len(pending) - 1)
  IN /\ Store(m)
     /\ pending' = IF Ok(m)
                   THEN more \o rest \o <<[last EXCEPT !.steps = @ + 1]>>
                   ELSE <<[last EXCEPT !.steps = @ + 1, !.err = m.err]>>
     /\ UNCHANGED <<ret, yielded, iterating, pre>>

Doing(fn) == pending # <<>> /\ pending[1].fn = fn

\* the upper_node field of the node at offset o, 0 when it cannot be read
upper_of(o) == IF Readable(o) THEN View(o).upper_node ELSE 0

\* the rethread of line 749 asked for by a thread that returned true
Again(t, o, chain) ==
  IF t.ret /\ t.again
  THEN <<Item("rethread", t.taker, o, upper_of(o), chain, pending[1].hops)>>
  ELSE <<>>

\* A call begins on the lists the dicts of the cache refer to; the lists the
\* call before it left without a dict are gone.
\* __setitem__ up to line 1053, the balancing of lines 1055-1058 pending
PutSteps(k, v) ==
  /\ pending = <<>>
  /\ pre' = Snapshot
  /\ \E s \in {stored(Canon(Mach), k, v)} :
     \E whole \in {Canon(setitem(Mach, k, v))} :
       /\ Store(s.m)
       /\ pending' =
            (IF Ok(s.m) /\ Len(K(s.m, s.node)) = s.m.hdr.num_keys
             THEN <<Item("thread_or_split", s.node.offset, 0, 0, 0, 0)>>
             ELSE <<>>)
            \o <<[ReturnItem("put", k, v, whole) EXCEPT !.err = s.m.err]>>
  /\ UNCHANGED <<ret, yielded, iterating>>

\* __delitem__ up to line 1100 or 1116, the balancing of lines 1102-1105
\* and 1117-1120 pending
DeleteSteps(k) ==
  /\ pending = <<>>
  /\ pre' = Snapshot
  /\ \E r \in {rec_search(Canon(Mach), hdr.root_offset, k)} :
     \E whole \in {Canon(delitem(Mach, k))} :
       IF Ok(r.m) /\ r.exists /\ Len(L(r.m, r.node)) > 0
       THEN \E s \in {replaced(Canon(Mach), k)} :
              /\ Store(s.m)
              /\ pending' =
                   (IF Ok(s.m)
                    THEN <<Item("balance_popped", s.max.offset, 0, 0, 0, 0),
                           NodeItem(s.node)>>
                    ELSE <<>>)
                   \o <<[ReturnItem("delete", k, 0, whole) EXCEPT !.err = s.m.err]>>
       ELSE \E s \in {removed(Canon(Mach), k)} :
              /\ Store(s.m)
              /\ pending' =
                   (IF Ok(s.m) THEN <<NodeItem(s.node)>> ELSE <<>>)
                   \o <<[ReturnItem("delete", k, 0, whole) EXCEPT !.err = s.m.err]>>
  /\ UNCHANGED <<ret, yielded, iterating>>

\* the next call of the recorded run, when it is a put
BeginPut(k) ==
  /\ Alive /\ ~iterating
  /\ MovedPos < Len(MovedCalls)
  /\ MovedCalls[MovedPos + 1] = <<"put", k>>
  /\ PutSteps(k, DataSizeArg)

\* the next call of the recorded run, when it is a delete
BeginDelete(k) ==
  /\ Alive /\ ~iterating
  /\ MovedPos < Len(MovedCalls)
  /\ MovedCalls[MovedPos + 1] = <<"delete", k>>
  /\ DeleteSteps(k)

\* "if not self.__thread_ballance__(fd, o): self.__split_node__(fd, o)"
ThreadOrSplit ==
  /\ Doing("thread_or_split")
  /\ \E t \in {thread_once(Mach, pending[1].offset)} :
       Continue(t.m, IF t.ret THEN Again(t, pending[1].offset, 1)
                     ELSE <<[pending[1] EXCEPT !.fn = "split"]>>)

\* __split_node__, then lines 588-591 for the parent
Split ==
  /\ Doing("split")
  /\ \E s \in {split_once(Mach, pending[1].offset)} :
       Continue(s.m,
                IF Ok(s.m) /\ Len(K(s.m, s.upper)) = s.m.hdr.num_keys
                THEN <<Item("thread_or_split", s.upper.offset, pending[1].offset,
                            upper_of(pending[1].offset), 0,
                            pending[1].hops + 1)>>
                ELSE <<>>)

\* "if not self.__thread_ballance__(fd, o): self.__merge_node__(fd, o)"
ThreadOrMerge ==
  /\ Doing("thread_or_merge")
  /\ \E t \in {thread_once(Mach, pending[1].offset)} :
       Continue(t.m, IF t.ret THEN Again(t, pending[1].offset, 1)
                     ELSE <<[pending[1] EXCEPT !.fn = "merge"]>>)

\* __merge_node__, then lines 493-496 for the parent
Merge ==
  /\ Doing("merge")
  /\ \E g \in {merge_once(Mach, pending[1].offset)} :
       Continue(g.m,
                IF Ok(g.m) /\ g.upper # None
                   /\ Len(K(g.m, g.upper)) < min_occup(g.m)
                THEN <<Item("thread_or_merge", g.upper.offset, pending[1].offset,
                            upper_of(pending[1].offset), 0,
                            pending[1].hops + 1)>>
                ELSE <<>>)

\* line 749: the taker that was left almost full threads in its turn
Rethread ==
  /\ Doing("rethread")
  /\ \E t \in {thread_once(Mach, pending[1].offset)} :
       Continue(t.m, Again(t, pending[1].offset, pending[1].chain + 1))

\* lines 1102-1105: "Ballance popped node which lost its max key"
BalancePopped ==
  /\ Doing("balance_popped")
  /\ \E l \in {load_node(Mach, pending[1].offset)} :
       Continue(l.m,
                IF Ok(l.m) /\ Len(K(l.m, l.node)) < min_occup(l.m)
                THEN <<[pending[1] EXCEPT !.fn = "thread_or_merge"]>>
                ELSE <<>>)

\* lines 1117-1120: "Ballance node", on the dict the search returned
BalanceNode ==
  /\ Doing("balance_node")
  /\ Continue(Mach,
              IF Len(K(Mach, pending[1].node)) < self_min_occup
              THEN <<Item("thread_or_merge", pending[1].offset, 0, 0, 0, 0)>>
              ELSE <<>>)

\* fd.close() and the return to the caller, or the exception reaching it
Leave ==
  /\ Doing("return")
  /\ ret' = Result(pending[1].op, pending[1].key, pending[1].value, pending[1].err)
  /\ pending' = <<>>
  /\ yielded' = <<>>
  /\ UNCHANGED <<hdr, dhdr, file, cache, heap, iter_node, iter_pos, iter_dir,
                 self_min_occup, iterating, pre>>

StepOfCall ==
  \/ ThreadOrSplit
  \/ Split
  \/ ThreadOrMerge
  \/ Merge
  \/ Rethread
  \/ BalancePopped
  \/ BalanceNode
  \/ Leave

\* any put or delete of a key of Keys on the small tree
PutAny(k) ==
  /\ Alive /\ Bounded /\ ~iterating
  /\ hdr.num_keys \in NumKeysArgs
  /\ PutSteps(k, DataSizeArg)

DeleteAny(k) ==
  /\ Alive /\ Bounded /\ ~iterating
  /\ hdr.num_keys \in NumKeysArgs
  /\ DeleteSteps(k)

InitSteps == Init \/ InitMoved

NextSteps ==
  \/ \E k \in Keys : PutAny(k)
  \/ \E k \in Keys : DeleteAny(k)
  \/ \E k \in MovedKeys : hdr.num_keys = MovedNumKeys /\ BeginPut(k)
  \/ \E k \in MovedKeys : hdr.num_keys = MovedNumKeys /\ BeginDelete(k)
  \/ StepOfCall

\* the calls of Spec on the small tree and the recorded run of SpecMoved
\* on the deep one, step by step
SpecSteps == InitSteps /\ [][NextSteps]_vars

\* a call once begun is run to its end: the handlers are not interrupted
SpecStepsFair == SpecSteps /\ WF_vars(StepOfCall)

\* the item was asked for by the split or the merge of the node at from
asked_by_child(item) ==
  item.from # 0 /\ item.fn \in {"thread_or_split", "split", "thread_or_merge", "merge"}

\* where the recursion of the call in progress stands: a balancing asked
\* for by a split or a merge is that of the parent of the node split or
\* merged, one level nearer the root each time; a rethread is that of a
\* sibling of the node whose thread asked for it, under the same parent, and
\* is the first in its row; the steps taken are bounded by the levels the
\* tree had when the call began
recursion_climbs ==
  /\ \A i \in 1..Len(pending) :
        /\ asked_by_child(pending[i]) =>
              /\ pending[i].offset = pending[i].parent
              /\ pending[i].offset # 0
              /\ pending[i].hops >= 1
        /\ pending[i].hops < pre.hdr.levels
        /\ pending[i].fn = "rethread" => pending[i].chain = 1
  /\ Doing("rethread") =>
        /\ Readable(pending[1].from)
        /\ pending[1].offset \in {View(pending[1].from).left_node,
                                  View(pending[1].from).right_node}
        /\ upper_of(pending[1].offset) = pending[1].parent
  /\ pending # <<>> => pending[Len(pending)].steps <= 3 * pre.hdr.levels + 2

\* the steps of a call leave the instance as setitem or delitem leave it
steps_make_the_call ==
  Doing("return") =>
    [Canon(Mach) EXCEPT !.err = pending[1].err] = pending[1].whole

\* C36: every put and every delete terminates from every reachable state:
\* a call that has begun reaches its return (or its exception); on the way
\* the recursion of thread, split and merge moves from a node to its parent,
\* with at most one further sideways re-thread of a taker that reached
\* num_keys - 1 keys, and it stops at the root, after fewer parents than
\* the tree has levels.
C36_CallsTerminate ==
  /\ [](recursion_climbs /\ steps_make_the_call)
  /\ (pending # <<>>) ~> (pending = <<>>)

\* a delete about to return whose merges climbed from the leaf to the root
\* and collapsed it
C36_Witness ==
  /\ Doing("return")
  /\ pending[1].op = "delete" /\ pending[1].err = ""
  /\ pending[1].steps >= 4
  /\ hdr.merges >= pre.hdr.merges + 2
  /\ hdr.levels < pre.hdr.levels
====
